---------------------------- MODULE Spec2Model ----------------------------
(***************************************************************************)
(* Model of the task orchestrator (voidbert/SO): the server's listen loop  *)
(* on its FIFO, the request handlers, the two schedulers with their        *)
(* priority queue and slots, the forked runner / status children that      *)
(* report TASK_DONE through the FIFO, and the log file.                    *)
(***************************************************************************)
EXTENDS Integers, Sequences, FiniteSets, TLC

(***************************************************************************)
(* Bounds of the model                                                     *)
(***************************************************************************)
NTasks == 2          \* argv[2] of the server: number of task slots
NClients == 2        \* clients that submit one SEND_PROGRAM / SEND_TASK each
NStatusClients == 1  \* clients that send one STATUS request each
MaxSec == 1          \* largest tv_sec the monotonic clock reaches
MaxNsec == 1         \* largest tv_nsec the monotonic clock reaches
MaxFaults == 1       \* system calls (fork, waitpid, write, open) that fail in a run

(***************************************************************************)
(* Program constants                                                       *)
(***************************************************************************)
SERVER_REQUESTS_MAXIMUM_STATUS_TASKS == 32
TASK_RUNNER_WARN_PARENT_MAX_RETRIES == 16
STATUS_WARN_PARENT_MAX_RETRIES == 16
CLIENT_REQUESTS_MAX_RETRIES == 16

(***************************************************************************)
(* uint32_t values are kept as their two 16-bit halves, value = hi * 2^16  *)
(* + lo, so that every intermediate result of the arithmetic on them stays *)
(* inside the integers the model checker computes with.                    *)
(***************************************************************************)
HALF_MOD == 65536
HALF_SIGN == 32768

U32(hi, lo) == [hi |-> hi, lo |-> lo]

U32Less(a, b) == a.hi < b.hi \/ (a.hi = b.hi /\ a.lo < b.lo)

(***************************************************************************)
(* Inputs                                                                  *)
(***************************************************************************)
\* expected_time values a client may report (any uint32): 1, 2 and 2^31 + 1
ExpectedTimes == {U32(0, 1), U32(0, 2), U32(32768, 1)}

\* command lines a client may submit, as character sequences
OneProgram == <<"a">>
Pipeline == <<"a", " ", "|", " ", "b">>
UnterminatedQuote == <<"\"", "a">>
EmptyGroup == <<"a", "|", "|", "b">>

CommandLines == {OneProgram, Pipeline, UnterminatedQuote, EmptyGroup}

(***************************************************************************)
(* struct timespec and the CLOCK_MONOTONIC values of the model             *)
(***************************************************************************)
ZeroTime == [tv_sec |-> 0, tv_nsec |-> 0]

Timespecs == [tv_sec : 0..MaxSec, tv_nsec : 0..MaxNsec]

TimeLess(a, b) ==
    \/ a.tv_sec < b.tv_sec
    \/ a.tv_sec = b.tv_sec /\ a.tv_nsec < b.tv_nsec

TimeLeq(a, b) == a = b \/ TimeLess(a, b)

TAGGED_TASK_TIME_SENT == 0
TAGGED_TASK_TIME_ARRIVED == 1
TAGGED_TASK_TIME_DISPATCHED == 2
TAGGED_TASK_TIME_ENDED == 3
TAGGED_TASK_TIME_COMPLETED == 4

TimeIds == TAGGED_TASK_TIME_SENT..TAGGED_TASK_TIME_COMPLETED

(***************************************************************************)
(* Command parser (server/command_parser.c)                                *)
(***************************************************************************)
CharAt(s, i) == IF i <= Len(s) THEN s[i] ELSE "NUL"

\* __command_parser_token_next: scans from cursor i; the result is a token
\* (kind "tok", with the position where scanning resumes), the end of the
\* string (kind "end") or a failure (kind "err", errno EINVAL).
RECURSIVE __command_parser_token_next(_, _, _, _, _, _)
__command_parser_token_next(s, i, dq, sq, hq, tok) ==
    LET c == CharAt(s, i) IN
    IF c = "NUL" THEN
        IF dq \/ sq THEN [kind |-> "err", errno |-> "EINVAL"]
        ELSE IF tok # <<>> \/ hq
             THEN [kind |-> "tok", string |-> tok, is_pipe |-> FALSE, remaining |-> i]
             ELSE [kind |-> "end"]
    ELSE IF c = "\"" THEN
        IF sq THEN __command_parser_token_next(s, i + 1, dq, sq, TRUE, Append(tok, c))
        ELSE __command_parser_token_next(s, i + 1, ~dq, sq, TRUE, tok)
    ELSE IF c = "'" THEN
        IF dq THEN __command_parser_token_next(s, i + 1, dq, sq, TRUE, Append(tok, c))
        ELSE __command_parser_token_next(s, i + 1, dq, ~sq, TRUE, tok)
    ELSE IF c = "\\" THEN
        IF ~sq THEN
            LET n == CharAt(s, i + 1) IN
            IF n = "\\" \/ n = "\"" \/ (~dq /\ n = " ")
            THEN __command_parser_token_next(s, i + 2, dq, sq, hq, Append(tok, n))
            ELSE IF n # "NUL"
                 THEN __command_parser_token_next(s, i + 2, dq, sq, hq,
                                                  Append(Append(tok, "\\"), n))
                 ELSE [kind |-> "err", errno |-> "EINVAL"]
        ELSE __command_parser_token_next(s, i + 1, dq, sq, hq, Append(tok, c))
    ELSE IF c = " " \/ c = "\t" THEN
        IF dq \/ sq THEN __command_parser_token_next(s, i + 1, dq, sq, hq, Append(tok, c))
        ELSE IF tok # <<>> \/ hq
             THEN [kind |-> "tok", string |-> tok, is_pipe |-> FALSE, remaining |-> i + 1]
             ELSE __command_parser_token_next(s, i + 1, dq, sq, hq, tok)
    ELSE IF c = "|" THEN
        IF dq \/ sq THEN __command_parser_token_next(s, i + 1, dq, sq, hq, Append(tok, c))
        ELSE IF tok # <<>> \/ hq
             THEN [kind |-> "tok", string |-> tok, is_pipe |-> FALSE, remaining |-> i]
             ELSE [kind |-> "tok", string |-> <<"|">>, is_pipe |-> TRUE,
                   remaining |-> i + 1]
    ELSE __command_parser_token_next(s, i + 1, dq, sq, hq, Append(tok, c))

\* The token loop of command_parser_parse_task: programs are the programs
\* completed so far, cur the arguments of the program being read.
RECURSIVE ParseLoop(_, _, _, _)
ParseLoop(s, i, programs, cur) ==
    LET t == __command_parser_token_next(s, i, FALSE, FALSE, FALSE, <<>>) IN
    IF t.kind = "err" THEN [ok |-> FALSE, errno |-> t.errno]
    ELSE IF t.kind = "end" THEN
        IF cur = <<>> THEN [ok |-> FALSE, errno |-> "EINVAL"]
        ELSE [ok |-> TRUE, programs |-> Append(programs, cur)]
    ELSE IF t.is_pipe THEN
        IF cur = <<>> THEN [ok |-> FALSE, errno |-> "EINVAL"]
        ELSE ParseLoop(s, t.remaining, Append(programs, cur), <<>>)
    ELSE ParseLoop(s, t.remaining, programs, Append(cur, t.string))

command_parser_parse_task(command_line) == ParseLoop(command_line, 1, <<>>, <<>>)


(***************************************************************************)
(* Tagged tasks (server/tagged_task.c)                                     *)
(***************************************************************************)
NoTimes == [i \in TimeIds |-> ZeroTime]

PROCEDURE_COMMAND_LINE == <<"PROCEDURE TASK">>

\* The result is [null |-> FALSE, task |-> a tagged task] or, for a NULL
\* return, [null |-> TRUE, errno |-> e]; errno after a parsing failure is the
\* one command_parser_parse_task left.
tagged_task_new_from_command_line(command_line, id, expected_time) ==
    LET parsed == command_parser_parse_task(command_line) IN
    IF parsed.ok
    THEN [null |-> FALSE,
          task |-> [task |-> [kind |-> "programs", programs |-> parsed.programs],
                    command_line |-> command_line,
                    id |-> id,
                    expected_time |-> expected_time,
                    times |-> NoTimes]]
    ELSE [null |-> TRUE, errno |-> parsed.errno]

tagged_task_new_from_procedure(client_pid, id, expected_time) ==
    [task |-> [kind |-> "procedure", state |-> client_pid],
     command_line |-> PROCEDURE_COMMAND_LINE,
     id |-> id,
     expected_time |-> expected_time,
     times |-> NoTimes]

\* NULL (null |-> TRUE) for a timestamp that is not set (zeroed).
tagged_task_get_time(task, id) ==
    IF task.times[id] = ZeroTime THEN [null |-> TRUE]
    ELSE [null |-> FALSE, time |-> task.times[id]]

tagged_task_set_time(task, id, time) ==
    [task EXCEPT !.times[id] = time]

\* A count that takes every task for one program.
task_get_program_count_single(task) == 1

task_get_program_count(task) ==
    IF task.task.kind = "programs" THEN Len(task.task.programs) ELSE 0

(***************************************************************************)
(* Comparators of the two policies (server/scheduler.c)                    *)
(***************************************************************************)
\* (int) ((int64_t) a - (int64_t) b) for uint32_t a and b: the low 32 bits of
\* the difference, read as a signed 32-bit int.
DiffToInt32(a, b) ==
    LET lo == a.lo - b.lo
        borrow == IF lo < 0 THEN 1 ELSE 0
        hi == (a.hi - b.hi - borrow) % HALF_MOD
    IN  IF hi >= HALF_SIGN
        THEN (hi - HALF_MOD) * HALF_MOD + (lo % HALF_MOD)
        ELSE hi * HALF_MOD + (lo % HALF_MOD)

\* A comparison of the arrival times that looks at tv_nsec alone.
__scheduler_compare_nsec(a, b) ==
    LET a_time == tagged_task_get_time(a, TAGGED_TASK_TIME_ARRIVED)
        b_time == tagged_task_get_time(b, TAGGED_TASK_TIME_ARRIVED)
    IN  IF a_time.null \/ b_time.null THEN 0
        ELSE a_time.time.tv_nsec - b_time.time.tv_nsec

__scheduler_compare_fcfs(a, b) ==
    LET a_time == tagged_task_get_time(a, TAGGED_TASK_TIME_ARRIVED)
        b_time == tagged_task_get_time(b, TAGGED_TASK_TIME_ARRIVED)
    IN  IF a_time.null \/ b_time.null THEN 0
        ELSE IF a_time.time.tv_sec > b_time.time.tv_sec THEN 1
        ELSE IF a_time.time.tv_sec = b_time.time.tv_sec
             THEN a_time.time.tv_nsec - b_time.time.tv_nsec  \* fits an int
        ELSE -1

__scheduler_compare_sjf(a, b) ==
    DiffToInt32(a.expected_time, b.expected_time)

cmp_func(policy, a, b) ==
    IF policy = "fcfs" THEN __scheduler_compare_fcfs(a, b)
    ELSE __scheduler_compare_sjf(a, b)

(***************************************************************************)
(* Priority queue (server/priority_queue.c). values is the heap array:     *)
(* the element the code keeps at index i is values[i + 1].                 *)
(***************************************************************************)
__priority_queue_swap(values, i, j) ==
    [values EXCEPT ![i + 1] = values[j + 1], ![j + 1] = values[i + 1]]

RECURSIVE __priority_queue_insert_bubble_up(_, _, _)
__priority_queue_insert_bubble_up(policy, values, placement) ==
    LET parent == IF placement = 0 THEN 0 ELSE (placement - 1) \div 2 IN
    IF placement > 0 /\ cmp_func(policy, values[placement + 1], values[parent + 1]) < 0
    THEN __priority_queue_insert_bubble_up(
             policy, __priority_queue_swap(values, placement, parent), parent)
    ELSE values

priority_queue_insert(policy, values, element) ==
    __priority_queue_insert_bubble_up(policy, Append(values, element), Len(values))

RECURSIVE __priority_queue_remove_bubble_down(_, _, _)
__priority_queue_remove_bubble_down(policy, values, removal) ==
    LET size == Len(values)
        left_child == 2 * removal + 1
        right_child == left_child + 1
        chosen_child ==
            IF right_child < size
               /\ cmp_func(policy, values[right_child + 1], values[left_child + 1]) < 0
            THEN right_child ELSE left_child
    IN  IF left_child < size
        THEN IF cmp_func(policy, values[removal + 1], values[chosen_child + 1]) < 0
             THEN values
             ELSE __priority_queue_remove_bubble_down(
                      policy, __priority_queue_swap(values, removal, chosen_child),
                      chosen_child)
        ELSE values

\* Only called on a non-empty queue: [ret |-> the top, values |-> the rest].
priority_queue_remove_top(policy, values) ==
    LET size == Len(values) - 1
        swapped == __priority_queue_swap(values, size, 0)
        rest == SubSeq(swapped, 1, size)
    IN  [ret |-> values[1],
         values |-> IF size = 0 THEN rest
                    ELSE __priority_queue_remove_bubble_down(policy, rest, 0)]

(***************************************************************************)
(* Scheduler (server/scheduler.c). A scheduler is a record of its policy   *)
(* (the comparator of its queue), ntasks, the heap array of its queue and  *)
(* its slots. A slot that is available holds NoTask and a stale pid; freed *)
(* tells that the task pointer of an occupied slot was already freed.      *)
(* The secret of scheduler.c is left out: neither scheduler.h nor the      *)
(* TASK_DONE message nor the caller in server_requests.c carries one.      *)
(***************************************************************************)
NoTask ==
    [task |-> [kind |-> "none"], command_line |-> <<>>, id |-> 0,
     expected_time |-> U32(0, 0), times |-> NoTimes]

FreeSlot == [available |-> TRUE, pid |-> "stale", task |-> NoTask, freed |-> FALSE]

scheduler_new(policy, ntasks) ==
    [policy |-> policy, ntasks |-> ntasks, queue |-> <<>>,
     slots |-> [i \in 0..(ntasks - 1) |-> FreeSlot]]

scheduler_add_task(scheduler, task) ==
    [scheduler EXCEPT !.queue = priority_queue_insert(scheduler.policy, @, task)]

\* No test at all: every task is taken for one that can start at once.
scheduler_can_schedule_now_unasked(scheduler) == TRUE

\* A test that only looks at the number of slots.
scheduler_can_schedule_now_unchecked(scheduler) ==
    scheduler.ntasks > 0

scheduler_can_schedule_now(scheduler) ==
    \E i \in 0..(scheduler.ntasks - 1) : scheduler.slots[i].available

\* The search "for (; slot_search < ntasks; ++slot_search) if available break"
RECURSIVE FindSlot(_, _)
FindSlot(scheduler, slot_search) ==
    IF slot_search < scheduler.ntasks /\ ~scheduler.slots[slot_search].available
    THEN FindSlot(scheduler, slot_search + 1)
    ELSE slot_search

\* A dispatch that finds no slot and leaves the removed task out of the queue.
ReinsertForgotten(scheduler, top) ==
    [scheduler EXCEPT !.queue = top.values]

\* "Can't schedule: reinsert the task": top is what priority_queue_remove_top
\* returned for the queue of the scheduler.
Reinsert(scheduler, top) ==
    [scheduler EXCEPT !.queue =
        priority_queue_insert(scheduler.policy, top.values, top.ret)]

\* The loop of scheduler_dispatch_possible. fork_fail_at is the number of the
\* fork() of this call that fails (one more than ntasks: none fails), time the
\* clock value read for DISPATCHED. The result has the scheduler, the return
\* value and the slots whose child was forked, in fork order.
RECURSIVE DispatchLoop(_, _, _, _, _, _)
DispatchLoop(scheduler, slot_search, dispatched, forked, fork_fail_at, time) ==
    IF scheduler.queue = <<>>
    THEN [scheduler |-> scheduler, ret |-> dispatched, forked |-> forked]
    ELSE
      LET top == priority_queue_remove_top(scheduler.policy, scheduler.queue)
          found == FindSlot(scheduler, slot_search)
          task == tagged_task_set_time(top.ret, TAGGED_TASK_TIME_DISPATCHED, time)
      IN  IF found = scheduler.ntasks
          THEN [scheduler |-> Reinsert(scheduler, top),
                ret |-> dispatched, forked |-> forked]
          ELSE IF dispatched + 1 = fork_fail_at
          THEN [scheduler |->
                    [scheduler EXCEPT !.queue = top.values,
                                      !.slots[found].available = FALSE,
                                      !.slots[found].task = task,
                                      !.slots[found].freed = TRUE],
                ret |-> -1, forked |-> forked]
          ELSE DispatchLoop(
                   [scheduler EXCEPT !.queue = top.values,
                                     !.slots[found] =
                                         [available |-> FALSE, pid |-> "child",
                                          task |-> task, freed |-> FALSE]],
                   found + 1, dispatched + 1, Append(forked, found),
                   fork_fail_at, time)

\* A dispatch that leaves the scheduler as it is.
scheduler_dispatch_possible_skipped(scheduler, fork_fail_at, time) ==
    [scheduler |-> scheduler, ret |-> 0, forked |-> <<>>]

\* A dispatch whose search for a slot starts after slot 0.
scheduler_dispatch_possible_from_slot_one(scheduler, fork_fail_at, time) ==
    DispatchLoop(scheduler, 1, 0, <<>>, fork_fail_at, time)

scheduler_dispatch_possible(scheduler, fork_fail_at, time) ==
    DispatchLoop(scheduler, 0, 0, <<>>, fork_fail_at, time)

\* scheduler_mark_done without "slots[slot].available = 1" on success.
scheduler_mark_done_slot_kept(scheduler, slot, time_ended, waited, time) ==
    IF slot >= scheduler.ntasks
    THEN [scheduler |-> scheduler, null |-> TRUE, errno |-> "ERANGE", task |-> NoTask]
    ELSE IF scheduler.slots[slot].available
    THEN [scheduler |-> scheduler, null |-> TRUE, errno |-> "ERANGE", task |-> NoTask]
    ELSE IF waited = "fail"
    THEN [scheduler |-> [scheduler EXCEPT !.slots[slot] = FreeSlot],
          null |-> TRUE, errno |-> "ECHILD", task |-> NoTask]
    ELSE [scheduler |-> scheduler,
          null |-> FALSE, errno |-> "0",
          task |-> tagged_task_set_time(
                       tagged_task_set_time(scheduler.slots[slot].task,
                                            TAGGED_TASK_TIME_ENDED, time_ended),
                       TAGGED_TASK_TIME_COMPLETED, time)]

\* scheduler_mark_done with the two timestamps it sets taken for each other:
\* ENDED from the clock of the server, COMPLETED from the TASK_DONE frame.
scheduler_mark_done_times_swapped(scheduler, slot, time_ended, waited, time) ==
    IF slot >= scheduler.ntasks
    THEN [scheduler |-> scheduler, null |-> TRUE, errno |-> "ERANGE", task |-> NoTask]
    ELSE IF scheduler.slots[slot].available
    THEN [scheduler |-> scheduler, null |-> TRUE, errno |-> "ERANGE", task |-> NoTask]
    ELSE IF waited = "fail"
    THEN [scheduler |-> [scheduler EXCEPT !.slots[slot] = FreeSlot],
          null |-> TRUE, errno |-> "ECHILD", task |-> NoTask]
    ELSE [scheduler |-> [scheduler EXCEPT !.slots[slot] = FreeSlot],
          null |-> FALSE, errno |-> "0",
          task |-> tagged_task_set_time(
                       tagged_task_set_time(scheduler.slots[slot].task,
                                            TAGGED_TASK_TIME_ENDED, time),
                       TAGGED_TASK_TIME_COMPLETED, time_ended)]

\* scheduler_mark_done that leaves the slot taken when waitpid fails.
scheduler_mark_done_failed_wait_kept(scheduler, slot, time_ended, waited, time) ==
    IF slot >= scheduler.ntasks
    THEN [scheduler |-> scheduler, null |-> TRUE, errno |-> "ERANGE", task |-> NoTask]
    ELSE IF scheduler.slots[slot].available
    THEN [scheduler |-> scheduler, null |-> TRUE, errno |-> "ERANGE", task |-> NoTask]
    ELSE IF waited = "fail"
    THEN [scheduler |-> scheduler, null |-> TRUE, errno |-> "ECHILD", task |-> NoTask]
    ELSE [scheduler |-> [scheduler EXCEPT !.slots[slot] = FreeSlot],
          null |-> FALSE, errno |-> "0",
          task |-> tagged_task_set_time(
                       tagged_task_set_time(scheduler.slots[slot].task,
                                            TAGGED_TASK_TIME_ENDED, time_ended),
                       TAGGED_TASK_TIME_COMPLETED, time)]

\* scheduler_mark_done without the test of slots[slot].available.
scheduler_mark_done_free_slot_taken(scheduler, slot, time_ended, waited, time) ==
    IF slot >= scheduler.ntasks
    THEN [scheduler |-> scheduler, null |-> TRUE, errno |-> "ERANGE", task |-> NoTask]
    ELSE IF waited = "fail"
    THEN [scheduler |-> [scheduler EXCEPT !.slots[slot] = FreeSlot],
          null |-> TRUE, errno |-> "ECHILD", task |-> NoTask]
    ELSE [scheduler |-> [scheduler EXCEPT !.slots[slot] = FreeSlot],
          null |-> FALSE, errno |-> "0",
          task |-> tagged_task_set_time(
                       tagged_task_set_time(scheduler.slots[slot].task,
                                            TAGGED_TASK_TIME_ENDED, time_ended),
                       TAGGED_TASK_TIME_COMPLETED, time)]

\* waited: "ok" when waitpid returned the pid, "fail" when it returned -1.
\* The result has the scheduler, whether NULL is returned, errno, and the task.
scheduler_mark_done(scheduler, slot, time_ended, waited, time) ==
    IF slot >= scheduler.ntasks
    THEN [scheduler |-> scheduler, null |-> TRUE, errno |-> "ERANGE", task |-> NoTask]
    ELSE IF scheduler.slots[slot].available
    THEN [scheduler |-> scheduler, null |-> TRUE, errno |-> "ERANGE", task |-> NoTask]
    ELSE IF waited = "fail"
    THEN [scheduler |-> [scheduler EXCEPT !.slots[slot] = FreeSlot],
          null |-> TRUE, errno |-> "ECHILD", task |-> NoTask]
    ELSE [scheduler |-> [scheduler EXCEPT !.slots[slot] = FreeSlot],
          null |-> FALSE, errno |-> "0",
          task |-> tagged_task_set_time(
                       tagged_task_set_time(scheduler.slots[slot].task,
                                            TAGGED_TASK_TIME_ENDED, time_ended),
                       TAGGED_TASK_TIME_COMPLETED, time)]

(***************************************************************************)
(* Log file (server/log_file.c)                                            *)
(***************************************************************************)
PROTOCOL_MAXIMUM_COMMAND_LENGTH == 4063

\* [ok |-> FALSE] stands for the EMSGSIZE failure.
__log_file_serialize_task(task, error) ==
    IF Len(task.command_line) > PROTOCOL_MAXIMUM_COMMAND_LENGTH
    THEN [ok |-> FALSE]
    ELSE [ok |-> TRUE,
          record |-> [id |-> task.id,
                      command_length |-> Len(task.command_line),
                      expected_time |-> task.expected_time,
                      error |-> error,
                      times |-> [i \in TimeIds |->
                                    LET t == tagged_task_get_time(task, i) IN
                                    IF t.null THEN ZeroTime ELSE t.time],
                      command_line |-> task.command_line]]

\* log is [records |-> the file, task_count |-> the count of the handle];
\* written tells whether write() wrote the whole record.
log_file_write_task(log_file, task, error, written) ==
    LET serialized == __log_file_serialize_task(task, error) IN
    IF serialized.ok /\ written
    THEN [records |-> Append(log_file.records, serialized.record),
          task_count |-> log_file.task_count + 1]
    ELSE log_file

(***************************************************************************)
(* State                                                                   *)
(***************************************************************************)
VARIABLES
    faults,            \* number of system calls that may still fail in this run
    now,               \* CLOCK_MONOTONIC
    spc,               \* position of the server in ipc_listen
    pipe,              \* frames in the server FIFO, not yet read
    inbuf,             \* frames the last read() returned, not yet dispatched
    proc,              \* clients and forked children: position, frame, write attempts
    scheduler,         \* server_state_t::scheduler
    status_scheduler,  \* server_state_t::status_scheduler
    next_task_id,      \* server_state_t::next_task_id
    log,               \* server_state_t::log: the file and the handle's task_count
    accepted,          \* history: ids of the submissions that were enqueued, in order
    replies,           \* history: frames the server sent to clients, in order
    lost,              \* history: frames written to the FIFO that the kernel discarded
    discarded,         \* history: ids whose task was thrown away unlogged
    unreaped,          \* history: children whose waitpid failed, never waited again
    listener,          \* ipc_listen seen byte by byte: one session of one FIFO
    log_file,          \* the log: records of the file, offset of its descriptor, task_count
    task_states,       \* the tasks as the server holds them while status children run
    status_procs,      \* forked status children: their copy of the state, their output
    sender,            \* one reply of the server seen call by call: open, writes, reopens
    runner,            \* one run of task_runner_main: the programs spawned, the message sent
    client_run,        \* one run of the client program: its request, the reply, its exit code
    call               \* one call of a function of the program: its arguments, its result

\* The variables of the parts that are also studied on their own, below the
\* level of whole frames; they rest while the server as a whole runs.
\* The runs and calls that are studied one at a time.
others == <<runner, client_run, call>>

components == <<listener, log_file, task_states, status_procs, sender, others>>

vars == <<faults, now, spc, pipe, inbuf, proc, scheduler, status_scheduler,
          next_task_id, log, accepted, replies, lost, discarded, unreaped,
          components>>

Clients == {"client"} \X (1..NClients)
StatusClients == {"sclient"} \X (1..NStatusClients)
Runners == {"runner"} \X (0..(NTasks - 1))
StatusChildren == {"schild"} \X (0..(SERVER_REQUESTS_MAXIMUM_STATUS_TASKS - 1))
Children == Runners \cup StatusChildren
Procs == Clients \cup StatusClients \cup Children

NoMsg == [type |-> "NONE"]
NoProc == [pc |-> "none", msg |-> NoMsg, tries |-> 0]

\* Processes that hold the FIFO open for writing, or sleep in open(O_WRONLY):
\* the kernel counts both as writers of the FIFO.
Holders == {w \in Procs : proc[w].pc \in {"blocked", "opened", "written"}}

\* The server holds receive_fd, or sleeps in open(O_RDONLY): the kernel counts
\* both as a reader of the FIFO.
ServerHolds == spc \in {"opening", "read", "handle", "close"}

\* A status child is forked inside on_message, while receive_fd is open, and
\* keeps its copy of the descriptor until it exits. (A runner is forked by
\* block_cb, after the close.)
Inherited == {w \in StatusChildren : proc[w].pc \in {"run", "blocked", "opened", "written"}}

\* The FIFO has a reader.
ReaderOpen == ServerHolds \/ Inherited # {}

\* The exit of process w closes its descriptors. The kernel frees the buffer
\* of a FIFO, and the frames in it, when the last descriptor goes away.
LastEnd(w) == ~ServerHolds /\ (Holders \cup Inherited) \ {w} = {}

Leaves(w) ==
    IF LastEnd(w)
    THEN pipe' = <<>> /\ lost' = lost \o pipe
    ELSE pipe' = pipe /\ lost' = lost

\* A server that sleeps in open(O_RDONLY) returns when a writer opens.
Woken == IF spc = "opening" THEN "read" ELSE spc

\* The ipc_listen of a client on its own FIFO ended: the server, or the
\* status child, sent its frames and closed the sending end.
Replied(pid) == \E i \in 1..Len(replies) : replies[i].to = pid

\* What a submitting client is started with: the kind of submission, the
\* expected time and the command line of its arguments. stamped tells that
\* time_sent is what protocol_send_program_task_message_new reads from the
\* clock; a frame written by other means may carry any time_sent.
SubmitInputs ==
    [type : {"SEND_PROGRAM", "SEND_TASK"},
     expected_time : ExpectedTimes,
     command_line : CommandLines,
     stamped : BOOLEAN]

\* The server after server_requests_listen built its state, the clients
\* before they connect, each with one of the given inputs.
Booted(policies, ntasks, inputs) ==
    /\ now = [tv_sec |-> 0, tv_nsec |-> 1]
    /\ spc = "closed"
    /\ pipe = <<>>
    /\ inbuf = <<>>
    /\ \E input \in [Clients -> inputs] :
       proc = [w \in Procs |->
                 IF w \in Children THEN NoProc
                 ELSE IF w \in StatusClients
                 THEN [pc |-> "start", tries |-> 0,
                       msg |-> [type |-> "STATUS", client_pid |-> w]]
                 ELSE [pc |-> "start", tries |-> 0,
                       msg |-> [type |-> input[w].type, client_pid |-> w,
                                time_sent |-> ZeroTime,
                                expected_time |-> input[w].expected_time,
                                command_line |-> input[w].command_line,
                                stamped |-> input[w].stamped]]]
    /\ \E policy \in policies : scheduler = scheduler_new(policy, ntasks)
    /\ status_scheduler = scheduler_new("fcfs", SERVER_REQUESTS_MAXIMUM_STATUS_TASKS)
    /\ next_task_id = 1
    /\ log = [records |-> <<>>, task_count |-> 0]
    /\ accepted = <<>>
    /\ replies = <<>>
    /\ lost = <<>>
    /\ discarded = {}
    /\ unreaped = 0

\* No session of the byte-level listener is under way.
NoListener ==
    [receive_fd |-> -1, fifo |-> <<>>, buf |-> <<>>, residuals |-> 0,
     delivered |-> <<>>, session |-> <<>>, frames |-> <<>>]

\* log_file_new(path, 1): an empty file, and no task and no status child yet.
NoLogFile == [disk |-> <<>>, offset |-> 0, task_count |-> 0]

StatusIdle ==
    /\ log_file = NoLogFile
    /\ task_states = <<>>
    /\ status_procs = <<>>

\* No reply is followed call by call.
NoSender ==
    [pc |-> "none", client |-> "none", fifo |-> FALSE, reader |-> FALSE,
     send_fd |-> -1, max_tries |-> 0, i |-> 0, writes |-> 0, complete |-> 0,
     epipe |-> 0, eintr |-> 0, other |-> 0, recovered |-> 0,
     ret |-> -1, errno |-> "none"]

NoRunner == [pc |-> "none"]
NoClient == [pc |-> "none"]
NoCall == [of |-> "none"]

\* No run and no call is studied on its own.
OthersIdle == runner = NoRunner /\ client_run = NoClient /\ call = NoCall

ComponentsIdle ==
    listener = NoListener /\ StatusIdle /\ sender = NoSender /\ OthersIdle

Started(policies, ntasks, inputs) ==
    Booted(policies, ntasks, inputs) /\ ComponentsIdle

(***************************************************************************)
(* Clock                                                                   *)
(***************************************************************************)
Tick ==
    /\ \E t \in Timespecs : TimeLess(now, t) /\ now' = t
    /\ UNCHANGED <<components, faults, spc, pipe, inbuf, proc, scheduler, status_scheduler,
                   next_task_id, log, accepted, replies, lost, discarded, unreaped>>

(***************************************************************************)
(* Writers of the server FIFO: ipc_new, ipc_send / ipc_send_retry, ipc_free *)
(***************************************************************************)
\* open(IPC_SERVER_FIFO_PATH, O_WRONLY) in the ipc_new of a client: returns at
\* once when the server holds the read end, sleeps otherwise.
WriterOpen(w) ==
    /\ proc[w].pc = "start"
    /\ proc' = [proc EXCEPT ![w].pc = IF ReaderOpen THEN "opened" ELSE "blocked"]
    /\ spc' = Woken
    /\ UNCHANGED <<components, faults, now, pipe, inbuf, scheduler, status_scheduler,
                   next_task_id, log, accepted, replies, lost, discarded, unreaped>>

\* The frame a submitting client writes: protocol_send_program_task_message_new
\* stamps time_sent with the clock; a frame written by other means carries any.
SubmitFrames(w) ==
    {[type |-> proc[w].msg.type, client_pid |-> w, time_sent |-> t,
      expected_time |-> proc[w].msg.expected_time,
      command_line |-> proc[w].msg.command_line] :
        t \in IF proc[w].msg.stamped THEN {now} ELSE Timespecs \ {ZeroTime}}

\* ipc_send of a submitting client: one write(); with no reader the write
\* raises SIGPIPE, whose default disposition ends the client.
ClientSend(w) ==
    /\ w \in Clients
    /\ proc[w].pc = "opened"
    /\ IF ReaderOpen
       THEN \E frame \in SubmitFrames(w) :
                /\ pipe' = Append(pipe, frame)
                /\ proc' = [proc EXCEPT ![w].pc = "written",
                                              ![w].msg.time_sent = frame.time_sent]
                /\ lost' = lost
       ELSE /\ Leaves(w)
            /\ proc' = [proc EXCEPT ![w].pc = "done"]
    /\ UNCHANGED <<components, faults, now, spc, inbuf, scheduler, status_scheduler,
                   next_task_id, log, accepted, replies, discarded, unreaped>>

\* The state a process is in after it exited.
Exited(w) == IF w \in Children THEN "zombie" ELSE "done"

\* max_tries of the caller of ipc_send_retry.
MaxTries(w) ==
    IF w \in Runners THEN TASK_RUNNER_WARN_PARENT_MAX_RETRIES
    ELSE IF w \in StatusChildren THEN STATUS_WARN_PARENT_MAX_RETRIES
    ELSE CLIENT_REQUESTS_MAX_RETRIES

\* One iteration of the loop of ipc_send_retry (status clients and children):
\* a complete write, or EPIPE followed by a new blocking open() of the FIFO,
\* or ETIMEDOUT after max_tries failed attempts.
RetrySend(w) ==
    /\ w \in StatusClients \cup Children
    /\ proc[w].pc = "opened"
    /\ IF proc[w].tries >= MaxTries(w)
       THEN /\ proc' = [proc EXCEPT ![w].pc = Exited(w)]
            /\ Leaves(w)
       ELSE IF ReaderOpen
       THEN /\ pipe' = Append(pipe, proc[w].msg)
            /\ lost' = lost
            /\ proc' = [proc EXCEPT ![w].pc = "written"]
       ELSE /\ pipe' = pipe
            /\ lost' = lost
            /\ proc' = [proc EXCEPT ![w].pc = "blocked", ![w].tries = @ + 1]
    /\ UNCHANGED <<components, faults, now, spc, inbuf, scheduler, status_scheduler,
                   next_task_id, log, accepted, replies, discarded, unreaped>>

\* ipc_free and the exit of the process. A child calls it right after its
\* write, a client after the ipc_listen on its own FIFO, which the reply ends.
WriterClose(w) ==
    /\ proc[w].pc = "written"
    /\ w \in Children \/ Replied(w)
    /\ proc' = [proc EXCEPT ![w].pc = Exited(w)]
    /\ Leaves(w)
    /\ UNCHANGED <<components, faults, now, spc, inbuf, scheduler, status_scheduler,
                   next_task_id, log, accepted, replies, discarded, unreaped>>

(***************************************************************************)
(* Forked children (server/task_runner.c, server/status.c)                 *)
(***************************************************************************)
ForkedChild == [pc |-> "run", msg |-> NoMsg, tries |-> 0]

\* proc after the fork() of the children of the given slots.
Fork(procs, kind, forked) ==
    [w \in Procs |->
        IF w[1] = kind /\ (\E i \in 1..Len(forked) : forked[i] = w[2])
        THEN ForkedChild ELSE procs[w]]

TaskDone(slot, is_status, error) ==
    [type |-> "TASK_DONE", slot |-> slot, time_ended |-> now,
     is_status |-> is_status, error |-> error]

\* What open(IPC_SERVER_FIFO_PATH, O_WRONLY) leads to for a runner, and for
\* a status child, which holds a read end itself.
AfterOpen(w) == IF ReaderOpen \/ w \in StatusChildren THEN "opened" ELSE "blocked"

\* task_runner_main from the moment every process of the pipeline ended:
\* __task_runner_warn_parent reads the clock, builds the message and calls
\* ipc_new, whose failure ends the child with nothing sent. error is 1 only
\* on the paths where pipe() or fork() failed (outcome "error").
RunnerFinish(w) ==
    /\ w \in Runners
    /\ proc[w].pc = "run"
    /\ \E outcome \in (IF faults > 0 THEN {"ok", "error", "ipc_new"} ELSE {"ok"}) :
          /\ proc' = [proc EXCEPT
                       ![w] = IF outcome = "ipc_new"
                              THEN [pc |-> "zombie", tries |-> 0, msg |-> NoMsg]
                              ELSE [pc |-> AfterOpen(w), tries |-> 0,
                                    msg |-> TaskDone(w[2], 0,
                                               IF outcome = "error" THEN 1 ELSE 0)]]
          /\ spc' = IF outcome = "ipc_new" THEN spc ELSE Woken
          /\ faults' = IF outcome = "ok" THEN faults ELSE faults - 1
    /\ UNCHANGED <<components, now, pipe, inbuf, scheduler, status_scheduler,
                   next_task_id, log, accepted, replies, lost, discarded, unreaped>>

StatusMessage == [type |-> "STATUS"]

\* status_main: when the open() of the FIFO of the client fails the child
\* returns 1 with nothing sent; otherwise it streams its records, closes the
\* sending end and goes on to __status_warn_parent: the clock, the message
\* and ipc_new.
StatusChildRun(w) ==
    /\ w \in StatusChildren
    /\ proc[w].pc = "run"
    /\ LET client == status_scheduler.slots[w[2]].task.task.state IN
       \E opened \in (IF faults > 0 THEN BOOLEAN ELSE {TRUE}) :
         IF opened
         THEN /\ proc' = [proc EXCEPT ![w] = [pc |-> AfterOpen(w), tries |-> 0,
                                              msg |-> TaskDone(w[2], 1, 0)]]
              /\ replies' = Append(replies, [to |-> client, frame |-> StatusMessage])
              /\ spc' = Woken
              /\ UNCHANGED <<pipe, lost, faults>>
         ELSE /\ proc' = [proc EXCEPT ![w] = [pc |-> "zombie", tries |-> 0,
                                              msg |-> NoMsg]]
              /\ faults' = faults - 1
              /\ UNCHANGED <<spc, replies>>
              /\ Leaves(w)
    /\ UNCHANGED <<components, now, inbuf, scheduler, status_scheduler,
                   next_task_id, log, accepted, discarded, unreaped>>

(***************************************************************************)
(* ipc_listen of the server (ipc.c)                                        *)
(***************************************************************************)
\* open(fifo_path, O_RDONLY): with a writer it returns at once, and the
\* writers that slept in open(O_WRONLY) return with it; with none it sleeps.
ServerOpen ==
    /\ spc = "closed"
    /\ spc' = IF Holders # {} THEN "read" ELSE "opening"
    /\ proc' = [w \in Procs |->
                   IF proc[w].pc = "blocked" THEN [proc[w] EXCEPT !.pc = "opened"]
                   ELSE proc[w]]
    /\ UNCHANGED <<components, faults, now, pipe, inbuf, scheduler, status_scheduler,
                   next_task_id, log, accepted, replies, lost, discarded, unreaped>>

\* read() returns the frames the FIFO holds.
ServerRead ==
    /\ spc = "read"
    /\ pipe # <<>>
    /\ inbuf' = pipe
    /\ pipe' = <<>>
    /\ spc' = "handle"
    /\ UNCHANGED <<components, faults, now, proc, scheduler, status_scheduler,
                   next_task_id, log, accepted, replies, lost, discarded, unreaped>>

\* read() returns 0: the FIFO is empty and no process holds its write end.
ServerEOF ==
    /\ spc = "read"
    /\ pipe = <<>>
    /\ Holders = {}
    /\ spc' = "close"
    /\ UNCHANGED <<components, faults, now, pipe, inbuf, proc, scheduler, status_scheduler,
                   next_task_id, log, accepted, replies, lost, discarded, unreaped>>

\* The fork() results a call of scheduler_dispatch_possible may meet.
ForkFailures(sched) ==
    IF faults > 0 THEN 1..(sched.ntasks + 1) ELSE {sched.ntasks + 1}

\* close(receive_fd) after the EOF, then block_cb, which is
\* __server_requests_before_block: scheduler_dispatch_possible on the task
\* scheduler. The close discards what a FIFO that nobody holds still buffers.
ServerClose ==
    /\ spc = "close"
    /\ spc' = "closed"
    /\ IF Holders \cup Inherited = {}
       THEN pipe' = <<>> /\ lost' = lost \o pipe
       ELSE pipe' = pipe /\ lost' = lost
    /\ \E fork_fail_at \in ForkFailures(scheduler) :
          LET d == scheduler_dispatch_possible(scheduler, fork_fail_at, now) IN
          /\ scheduler' = d.scheduler
          /\ proc' = Fork(proc, "runner", d.forked)
          /\ faults' = IF d.ret < 0 THEN faults - 1 ELSE faults
    /\ UNCHANGED <<components, now, inbuf, status_scheduler,
                   next_task_id, log, accepted, replies, discarded, unreaped>>

(***************************************************************************)
(* Message handlers of the server (server/server_requests.c)               *)
(***************************************************************************)
PIPE_BUF == 4096

HEADER_SIZE == 8  \* 2 * sizeof(uint32_t)

IPC_MAXIMUM_MESSAGE_LENGTH == PIPE_BUF - HEADER_SIZE

SIZEOF_PID_T == 4
SIZEOF_TIMESPEC == 16
SIZEOF_SIZE_T == 8

\* sizeof(protocol_task_done_message_t) and
\* sizeof(protocol_status_request_message_t), both packed
TASK_DONE_MESSAGE_SIZE == 1 + SIZEOF_SIZE_T + SIZEOF_TIMESPEC + 1 + 1
STATUS_REQUEST_MESSAGE_SIZE == 1 + SIZEOF_PID_T

\* The bytes of a submission frame before its command line.
SEND_PROGRAM_TASK_HEADER_SIZE == 1 + SIZEOF_PID_T + SIZEOF_TIMESPEC + 4

\* The frame on_message is called with, and the loop of ipc_listen moving on
\* to the next frame of the buffer or back to read().
Message == Head(inbuf)

\* The length on_message is called with: a frame that was written with
\* another length than the one of its fields carries it.
MessageLength(frame) ==
    IF "length" \in DOMAIN frame THEN frame.length
    ELSE IF frame.type \in {"SEND_PROGRAM", "SEND_TASK"}
    THEN SEND_PROGRAM_TASK_HEADER_SIZE + Len(frame.command_line)
    ELSE IF frame.type = "TASK_DONE" THEN TASK_DONE_MESSAGE_SIZE
    ELSE IF frame.type = "STATUS" THEN STATUS_REQUEST_MESSAGE_SIZE
    ELSE 1

\* A test of the length that takes every submission frame.
protocol_send_program_task_message_check_length_any(message_length) == TRUE

protocol_send_program_task_message_check_length(message_length) ==
    ~(\/ message_length <= SEND_PROGRAM_TASK_HEADER_SIZE
      \/ message_length > IPC_MAXIMUM_MESSAGE_LENGTH)

\* The test of the length at the head of the handler of the type; FALSE for
\* a type on_message has no handler for.
LengthFits(frame) ==
    IF frame.type \in {"SEND_PROGRAM", "SEND_TASK"}
    THEN protocol_send_program_task_message_check_length(MessageLength(frame))
    ELSE IF frame.type = "TASK_DONE"
    THEN MessageLength(frame) = TASK_DONE_MESSAGE_SIZE
    ELSE IF frame.type = "STATUS"
    THEN MessageLength(frame) = STATUS_REQUEST_MESSAGE_SIZE
    ELSE FALSE

Dispatched ==
    /\ inbuf' = Tail(inbuf)
    /\ spc' = IF Tail(inbuf) = <<>> THEN "read" ELSE "handle"

\* ipc_server_open_sending, ipc_send_retry and ipc_server_close_sending: the
\* frame reaches the client, which listens on its FIFO since it sent its own.
Reply(client_pid, frame) ==
    Append(replies, [to |-> client_pid, frame |-> frame])

ErrorMessage(text) == [type |-> "ERROR", error |-> text]

\* A TASK_ID reply with next_task_id itself, not next_task_id - 1.
TaskIdMessageOfNext(id) == [type |-> "TASK_ID", id |-> id + 1]

TaskIdMessage(id) == [type |-> "TASK_ID", id |-> id]

__server_requests_on_schedule_message ==
    /\ spc = "handle"
    /\ Message.type \in {"SEND_PROGRAM", "SEND_TASK"}
    /\ LengthFits(Message)
    /\ Dispatched
    /\ LET fields == Message
           created == tagged_task_new_from_command_line(
                          fields.command_line, next_task_id, fields.expected_time)
       IN  IF created.null /\ created.errno # "EILSEQ"
           THEN \* "failed to create task": return
                UNCHANGED <<scheduler, next_task_id, accepted, replies>>
           ELSE IF created.null
           THEN \* parsing_failure = 1 with no task
                /\ replies' = Reply(fields.client_pid,
                                    ErrorMessage("Parsing failure!\n"))
                /\ UNCHANGED <<scheduler, next_task_id, accepted>>
           ELSE
             LET task == tagged_task_set_time(
                             tagged_task_set_time(created.task, TAGGED_TASK_TIME_SENT,
                                                  fields.time_sent),
                             TAGGED_TASK_TIME_ARRIVED, now)
                 parsing_failure ==
                     fields.type = "SEND_PROGRAM" /\ task_get_program_count(task) # 1
             IN  IF parsing_failure
                 THEN /\ replies' = Reply(fields.client_pid,
                                          ErrorMessage("Parsing failure!\n"))
                      /\ UNCHANGED <<scheduler, next_task_id, accepted>>
                 ELSE /\ scheduler' = scheduler_add_task(scheduler, task)
                      /\ next_task_id' = next_task_id + 1
                      /\ accepted' = Append(accepted, task.id)
                      /\ replies' = Reply(fields.client_pid,
                                          TaskIdMessage(next_task_id' - 1))
    /\ UNCHANGED <<components, faults, now, pipe, proc, status_scheduler, log, lost, discarded, unreaped>>

\* waitpid(slots[slot].pid) inside scheduler_mark_done: it sleeps until the
\* child is a zombie and then returns the pid, or fails; it fails at once for
\* a pid that is no child.
WaitResults(w, slot_pid) ==
    IF slot_pid = "stale" THEN {"fail"}
    ELSE IF proc[w].pc = "zombie"
    THEN {"ok"} \cup (IF faults > 0 THEN {"fail"} ELSE {})
    ELSE {}

\* A handler that takes every TASK_DONE to the task scheduler.
__server_requests_on_done_message_unrouted ==
    /\ spc = "handle"
    /\ Message.type = "TASK_DONE"
    /\ LengthFits(Message)
    /\ Dispatched
    /\ LET fields == Message
           is_status == fields.is_status = 1
           target == scheduler
           w == <<IF is_status THEN "schild" ELSE "runner", fields.slot>>
           occupied == fields.slot < target.ntasks
                       /\ ~target.slots[fields.slot].available
       IN  \E waited \in (IF occupied
                          THEN WaitResults(w, target.slots[fields.slot].pid)
                          ELSE {"none"}) :
           \E written \in (IF faults > 0 /\ waited = "ok" /\ ~is_status
                           THEN BOOLEAN ELSE {TRUE}) :
             LET done == scheduler_mark_done(target, fields.slot, fields.time_ended,
                                             waited, now)
             IN  /\ scheduler' = done.scheduler
                 /\ status_scheduler' = status_scheduler
                 /\ proc' = IF waited \in {"ok", "fail"} /\ proc[w].pc = "zombie"
                            THEN [proc EXCEPT ![w] = NoProc] ELSE proc
                 /\ unreaped' = IF waited = "fail" /\ proc[w].pc = "zombie"
                                THEN unreaped + 1 ELSE unreaped
                 /\ faults' = IF waited = "fail" \/ ~written
                              THEN faults - 1 ELSE faults
                 /\ log' = IF ~done.null /\ ~is_status
                           THEN log_file_write_task(log, done.task, fields.error, written)
                           ELSE log
                 /\ discarded' =
                        IF ~is_status /\ occupied /\ log' = log
                        THEN discarded \cup {target.slots[fields.slot].task.id}
                        ELSE discarded
    /\ UNCHANGED <<components, now, pipe, next_task_id, accepted, replies, lost>>

__server_requests_on_done_message ==
    /\ spc = "handle"
    /\ Message.type = "TASK_DONE"
    /\ LengthFits(Message)
    /\ Dispatched
    /\ LET fields == Message
           is_status == fields.is_status = 1
           target == IF is_status THEN status_scheduler ELSE scheduler
           w == <<IF is_status THEN "schild" ELSE "runner", fields.slot>>
           occupied == fields.slot < target.ntasks
                       /\ ~target.slots[fields.slot].available
       IN  \E waited \in (IF occupied
                          THEN WaitResults(w, target.slots[fields.slot].pid)
                          ELSE {"none"}) :
           \E written \in (IF faults > 0 /\ waited = "ok" /\ ~is_status
                           THEN BOOLEAN ELSE {TRUE}) :
             LET done == scheduler_mark_done(target, fields.slot, fields.time_ended,
                                             waited, now)
             IN  /\ IF is_status
                    THEN status_scheduler' = done.scheduler /\ scheduler' = scheduler
                    ELSE scheduler' = done.scheduler
                         /\ status_scheduler' = status_scheduler
                 /\ proc' = IF waited \in {"ok", "fail"} /\ proc[w].pc = "zombie"
                            THEN [proc EXCEPT ![w] = NoProc] ELSE proc
                 /\ unreaped' = IF waited = "fail" /\ proc[w].pc = "zombie"
                                THEN unreaped + 1 ELSE unreaped
                 /\ faults' = IF waited = "fail" \/ ~written
                              THEN faults - 1 ELSE faults
                 /\ log' = IF ~done.null /\ ~is_status
                           THEN log_file_write_task(log, done.task, fields.error, written)
                           ELSE log
                 /\ discarded' =
                        IF ~is_status /\ occupied /\ log' = log
                        THEN discarded \cup {target.slots[fields.slot].task.id}
                        ELSE discarded
    /\ UNCHANGED <<components, now, pipe, next_task_id, accepted, replies, lost>>

__server_requests_on_status_message ==
    /\ spc = "handle"
    /\ Message.type = "STATUS"
    /\ LengthFits(Message)
    /\ Dispatched
    /\ LET fields == Message
           task == tagged_task_new_from_procedure(fields.client_pid, 0, U32(0, 0))
       IN  IF ~scheduler_can_schedule_now(status_scheduler)
           THEN /\ replies' = Reply(fields.client_pid,
                                    ErrorMessage("No capacity available!\n"))
                /\ UNCHANGED <<status_scheduler, proc, faults>>
           ELSE \E fork_fail_at \in ForkFailures(status_scheduler) :
                  LET d == scheduler_dispatch_possible(
                               scheduler_add_task(status_scheduler, task),
                               fork_fail_at, now)
                  IN  /\ status_scheduler' = d.scheduler
                      /\ proc' = Fork(proc, "schild", d.forked)
                      /\ faults' = IF d.ret < 0 THEN faults - 1 ELSE faults
                      /\ replies' = replies
    /\ UNCHANGED <<components, now, pipe, scheduler, next_task_id, log, accepted, lost,
                   discarded, unreaped>>

(***************************************************************************)
(* Specifications                                                          *)
(***************************************************************************)
PlainTask ==
    [type |-> "SEND_TASK", expected_time |-> U32(0, 1),
     command_line |-> OneProgram, stamped |-> TRUE]

Init == faults = MaxFaults /\ \E n \in 1..NTasks : Started({"fcfs"}, n, {PlainTask})

InitNoFault == faults = 0 /\ \E n \in 1..NTasks : Started({"fcfs"}, n, {PlainTask})

Next ==
    \/ \E w \in Procs : WriterOpen(w)
    \/ \E w \in Procs : ClientSend(w)
    \/ \E w \in Procs : RetrySend(w)
    \/ \E w \in Procs : WriterClose(w)
    \/ \E w \in Procs : RunnerFinish(w)
    \/ \E w \in Procs : StatusChildRun(w)
    \/ ServerOpen
    \/ ServerRead
    \/ ServerEOF
    \/ ServerClose
    \/ __server_requests_on_schedule_message
    \/ __server_requests_on_done_message
    \/ __server_requests_on_status_message

\* up to MaxFaults calls of fork(), waitpid(), open() or write() fail
Spec == Init /\ [][Next]_vars

\* no system call fails
SpecNoFault == InitNoFault /\ [][Next]_vars

\* The submitting clients, the runners and the server, with no status request.
NextTasks ==
    \/ \E w \in Clients : WriterOpen(w)
    \/ \E w \in Clients : ClientSend(w)
    \/ \E w \in Runners : RunnerFinish(w)
    \/ \E w \in Runners : RetrySend(w)
    \/ \E w \in Clients \cup Runners : WriterClose(w)
    \/ ServerOpen
    \/ ServerRead
    \/ ServerEOF
    \/ ServerClose
    \/ __server_requests_on_schedule_message
    \/ __server_requests_on_done_message

\* Submissions of every kind and command line.
SubmitKinds ==
    {i \in SubmitInputs : i.expected_time = U32(0, 1) /\ i.stamped}

InitSubmit ==
    faults = MaxFaults /\ \E n \in 1..NTasks : Started({"fcfs"}, n, SubmitKinds)

SpecSubmit == InitSubmit /\ [][NextTasks]_vars

\* Shortest job first, over the expected times.
Jobs ==
    {i \in SubmitInputs :
        i.type = "SEND_TASK" /\ i.command_line = OneProgram /\ i.stamped}

InitSJF == faults = 0 /\ \E n \in 1..NTasks : Started({"sjf"}, n, Jobs)

SpecSJF == InitSJF /\ [][NextTasks]_vars

\* First come first served, with a clock that advances and time_sent values
\* of any origin.
Arrivals ==
    {i \in SubmitInputs :
        /\ i.type = "SEND_TASK" /\ i.command_line = OneProgram
        /\ i.expected_time = U32(0, 1)}

InitFCFS == faults = 0 /\ \E n \in 1..NTasks : Started({"fcfs"}, n, Arrivals)

NextFCFS == Tick \/ NextTasks

SpecFCFS == InitFCFS /\ [][NextFCFS]_vars

(***************************************************************************)
(* What the claims speak about                                             *)
(***************************************************************************)
SlotIndices(s) == 0..(s.ntasks - 1)

\* the slots of a scheduler that are not available
Occupied(s) == {i \in SlotIndices(s) : ~s.slots[i].available}

\* positions of the queue and of the log that hold a task with the given id
QueuedAt(id) == {i \in 1..Len(scheduler.queue) : scheduler.queue[i].id = id}

RunningAt(id) == {i \in Occupied(scheduler) : scheduler.slots[i].task.id = id}

LoggedAt(id) == {i \in 1..Len(log.records) : log.records[i].id = id}

\* ids the server acknowledged with a TASK_ID frame
AckedIds ==
    {replies[i].frame.id :
        i \in {j \in 1..Len(replies) : replies[j].frame.type = "TASK_ID"}}

\* ids the server gave to a task so far
Ids == 1..(next_task_id - 1)

\* Every process that ran has exited, the FIFO is empty and the server
\* sleeps in open(): nothing happens until a new client connects.
Settled ==
    /\ spc = "opening"
    /\ pipe = <<>>
    /\ \A w \in Procs : proc[w].pc \in {"none", "done", "zombie"}

(***************************************************************************)
(* C10: every frame successfully written to the server FIFO is passed to   *)
(* on_message, whatever the interleaving of the writers' open, write and   *)
(* close with the server's read, EOF, close and reopen: no frame that was   *)
(* written is thrown away unread.                                          *)
(***************************************************************************)
C10_WrittenFrameReachesOnMessage == lost = <<>>

(***************************************************************************)
(* C1: every acknowledged task id is logged, and never by more than one    *)
(* record: no id has two records, and once every process has exited and    *)
(* the server sleeps, each acknowledged id has its record.                 *)
(***************************************************************************)
C1_AckedTaskLoggedExactlyOnce ==
    /\ \A id \in Ids : Cardinality(LoggedAt(id)) <= 1
    /\ Settled => \A id \in AckedIds : Cardinality(LoggedAt(id)) = 1

(***************************************************************************)
(* C2: the occupied slots of the task scheduler are at most N, and the     *)
(* occupied slots plus the queue length are at least the number of tasks   *)
(* acknowledged with a TASK_ID and not yet in the log.                     *)
(***************************************************************************)
Logged == {id \in Ids : LoggedAt(id) # {}}

C7_IdInAtMostOnePlace ==
    \A id \in Ids :
        Cardinality(QueuedAt(id)) + Cardinality(RunningAt(id))
            + Cardinality(LoggedAt(id)) <= 1

\* one task is logged while a second runs in a slot and a third place, the
\* other slot, is in use or free: the ids went through queue, slot and log
C7_LoggedAndRunning ==
    \E a, b \in Ids : a # b /\ LoggedAt(a) # {} /\ RunningAt(b) # {}

(***************************************************************************)
(* C9: every forked runner or status child is reaped by the waitpid of     *)
(* scheduler_mark_done when its TASK_DONE arrives, and none stays          *)
(* unreaped: as long as no frame was lost, no waitpid failed for good and  *)
(* a child that has exited has its TASK_DONE on the way to on_message.     *)
(***************************************************************************)
TaskDoneOnTheWay(w) ==
    \E i \in 1..Len(pipe \o inbuf) :
        LET frame == (pipe \o inbuf)[i] IN
        /\ frame.type = "TASK_DONE"
        /\ frame.slot = w[2]
        /\ frame.is_status = (IF w \in StatusChildren THEN 1 ELSE 0)

C9_NoChildStaysUnreaped ==
    lost = <<>> =>
        /\ unreaped = 0
        /\ \A w \in Children : proc[w].pc = "zombie" => TaskDoneOnTheWay(w)

(***************************************************************************)
(* Dispatches, as steps: a task that is in the queue before the step and   *)
(* in a slot after it was dispatched by the step.                          *)
(***************************************************************************)
QueuePositions == 1..Len(scheduler.queue)

\* the slot the step dispatched the task of queue position i to, if any
DispatchedTo(i) ==
    {k \in Occupied(scheduler') :
        /\ scheduler.slots[k].available
        /\ scheduler'.slots[k].task.id = scheduler.queue[i].id}

\* the task of queue position i is still queued after the step
StillQueued(i) ==
    \E j \in 1..Len(scheduler'.queue) : scheduler'.queue[j].id = scheduler.queue[i].id

Arrived(task) == task.times[TAGGED_TASK_TIME_ARRIVED]

(***************************************************************************)
(* C3: under FCFS, if A and B are both in the queue when a dispatch takes  *)
(* place and A.ARRIVED < B.ARRIVED, then A is dispatched before B: a step  *)
(* that dispatches B dispatches A too, and forks A first, into a slot of   *)
(* lower index.                                                            *)
(***************************************************************************)
C3_FcfsDispatchesEarlierArrivalFirst ==
    [][scheduler.policy = "fcfs" =>
        \A a, b \in QueuePositions :
            (/\ TimeLess(Arrived(scheduler.queue[a]), Arrived(scheduler.queue[b]))
             /\ DispatchedTo(b) # {})
            => /\ DispatchedTo(a) # {}
               /\ \A ka \in DispatchedTo(a), kb \in DispatchedTo(b) : ka < kb]_vars

\* A runs in a slot and B, which arrived later but before A was dispatched,
\* still waits in the queue
C3_EarlierArrivalRunsLaterWaits ==
    /\ scheduler.policy = "fcfs"
    /\ \E k \in Occupied(scheduler), b \in QueuePositions :
          LET A == scheduler.slots[k].task
              B == scheduler.queue[b]
          IN  /\ TimeLess(Arrived(A), Arrived(B))
              /\ TimeLess(Arrived(B), A.times[TAGGED_TASK_TIME_DISPATCHED])

(***************************************************************************)
(* C4: under SJF, when a dispatch fills k free slots from the queue, the k *)
(* dispatched tasks are k tasks with the smallest expected time among      *)
(* those queued, for all 32-bit expected times: no task the step leaves in *)
(* the queue has a smaller expected time than one it dispatched.           *)
(***************************************************************************)
C4_SjfDispatchesSmallestExpectedTimes ==
    [][scheduler.policy = "sjf" =>
        \A a, b \in QueuePositions :
            (DispatchedTo(b) # {} /\ StillQueued(a))
            => ~U32Less(scheduler.queue[a].expected_time,
                        scheduler.queue[b].expected_time)]_vars

(***************************************************************************)
(* C5: task ids come from a counter that starts at 1 and grows by exactly  *)
(* 1 for each accepted submission and not at all for a rejected one: the   *)
(* acknowledged ids are 1, 2, 3, ... without gaps or repeats, and each     *)
(* TASK_ID reply carries the id of the task that was just enqueued.        *)
(***************************************************************************)
TaskIdReplies == SelectSeq(replies, LAMBDA r : r.frame.type = "TASK_ID")

C6_ParseFailureRepliesError ==
    [][(/\ spc = "handle"
        /\ inbuf' = Tail(inbuf)
        /\ Message.type \in {"SEND_PROGRAM", "SEND_TASK"}
        /\ ~command_parser_parse_task(Message.command_line).ok)
       => /\ replies' = Append(replies, [to |-> Message.client_pid,
                                         frame |-> ErrorMessage("Parsing failure!\n")])
          /\ scheduler' = scheduler]_vars

(***************************************************************************)
(* C8: for every tagged task in the queue, in a slot or in the log, the    *)
(* timestamps that are present (non-zero) are non-decreasing in the order  *)
(* SENT, ARRIVED, DISPATCHED, ENDED, COMPLETED.                            *)
(***************************************************************************)
\* the timestamps of the tasks the server holds or logged
HeldTimes ==
    {scheduler.queue[i].times : i \in QueuePositions}
    \cup {scheduler.slots[k].task.times : k \in Occupied(scheduler)}
    \cup {log.records[i].times : i \in 1..Len(log.records)}

NonDecreasing(times, from) ==
    \A i, j \in from..TAGGED_TASK_TIME_COMPLETED :
        (i < j /\ times[i] # ZeroTime /\ times[j] # ZeroTime)
        => TimeLeq(times[i], times[j])

HeldTasks ==
    {[id |-> scheduler.queue[i].id, times |-> scheduler.queue[i].times] :
        i \in QueuePositions}
    \cup {[id |-> scheduler.slots[k].task.id, times |-> scheduler.slots[k].task.times] :
            k \in Occupied(scheduler)}
    \cup {[id |-> log.records[i].id, times |-> log.records[i].times] :
            i \in 1..Len(log.records)}

Submitters(id) ==
    {replies[i].to : i \in {j \in 1..Len(replies) : replies[j].frame = TaskIdMessage(id)}}

MaxFrames == 2    \* well-formed frames in the stream of a session

IPC_SERVER_LISTEN_BUFFER_SIZE == 4 * PIPE_BUF

IPC_MESSAGE_HEADER_SIGNATURE == U32(65261, 65261)  \* 0xFEEDFEED

\* the bytes of a uint32_t in memory
Uint32Bytes(word) ==
    <<word.lo % 256, word.lo \div 256, word.hi % 256, word.hi \div 256>>

\* the uint32_t at offset at of a buffer (offsets count from 0)
Uint32At(buf, at) ==
    U32(buf[at + 3] + 256 * buf[at + 4], buf[at + 1] + 256 * buf[at + 2])

\* What ipc_send writes for a message: signature, payload_length, message.
Frame(message) ==
    Uint32Bytes(IPC_MESSAGE_HEADER_SIGNATURE) \o Uint32Bytes(U32(0, Len(message)))
        \o message

RECURSIVE Concat(_)
Concat(seqs) == IF seqs = <<>> THEN <<>> ELSE Head(seqs) \o Concat(Tail(seqs))

\* read(receive_fd, buf + residuals, ...) that returned the bytes of chunk
ReadInto(buf, residuals, chunk) ==
    SubSeq(buf, 1, residuals) \o chunk
        \o SubSeq(buf, residuals + Len(chunk) + 1, Len(buf))

\* memmove(buf, buffer_read, remaining)
Memmove(buf, buffer_read, remaining) ==
    SubSeq(buf, buffer_read + 1, buffer_read + remaining)
        \o SubSeq(buf, remaining + 1, Len(buf))

\* The loop "while (remaining > 2 * sizeof(uint32_t))" of ipc_listen and the
\* statements after it, for a read() that returned bytes_read bytes: l is the
\* listener with the bytes already in its buffer. message_cb returns 0.
RECURSIVE ParseFrames(_, _, _, _)
ParseFrames(l, buffer_read, remaining, bytes_read) ==
    IF remaining > HEADER_SIZE
    THEN LET signature == Uint32At(l.buf, buffer_read)
             payload_length == Uint32At(l.buf, buffer_read + 4)
             frame_length == payload_length.lo + HEADER_SIZE
         IN  IF \/ signature # IPC_MESSAGE_HEADER_SIGNATURE
                \/ payload_length = U32(0, 0)
                \/ payload_length.hi # 0
                \/ payload_length.lo > IPC_MAXIMUM_MESSAGE_LENGTH
             THEN \* __ipc_flush_and_close: read until EOF, then close
                  [l EXCEPT !.fifo = <<>>, !.receive_fd = -1]
             ELSE IF frame_length > remaining
             THEN IF bytes_read = 0
                  THEN [l EXCEPT !.receive_fd = -1]
                  ELSE [l EXCEPT !.buf = Memmove(l.buf, buffer_read, remaining),
                                 !.residuals = remaining]
             ELSE ParseFrames(
                      [l EXCEPT !.delivered =
                          Append(@, SubSeq(l.buf, buffer_read + HEADER_SIZE + 1,
                                           buffer_read + frame_length))],
                      buffer_read + frame_length, remaining - frame_length,
                      bytes_read)
    ELSE IF bytes_read = 0
    THEN [l EXCEPT !.receive_fd = -1]
    ELSE l

Min(a, b) == IF a < b THEN a ELSE b

\* One turn of the inner "while (1)" of ipc_listen: a read() that returns n
\* bytes of the FIFO (0 at end of file, when the FIFO is empty and no writer
\* is left), and the handling of what the buffer then holds.
ListenRead ==
    /\ listener.receive_fd > 0
    /\ \E n \in 0..Min(Len(listener.fifo),
                       IPC_SERVER_LISTEN_BUFFER_SIZE - listener.residuals) :
          /\ n = 0 => listener.fifo = <<>>
          /\ listener' =
                ParseFrames(
                    [listener EXCEPT
                        !.fifo = SubSeq(@, n + 1, Len(@)),
                        !.buf = ReadInto(@, listener.residuals,
                                         SubSeq(listener.fifo, 1, n))],
                    0, listener.residuals + n, n)
    /\ UNCHANGED <<faults, now, spc, pipe, inbuf, proc, scheduler, status_scheduler,
                   next_task_id, log, accepted, replies, lost, discarded, unreaped,
                   log_file, task_states, status_procs, sender, others>>

\* The messages writers send in a session, each in a frame of its own.
Payloads == {<<1>>, <<2, 3>>}

FrameLists == UNION {[1..n -> Payloads] : n \in 1..MaxFrames}

\* Bytes that are no frame: too short for a header or without the signature.
Garbage == {<<0>>, <<0, 0, 0, 0>>, <<237, 254, 237, 0>>, <<0, 0, 0, 0, 0, 0, 0, 0, 0>>}

\* The listener after open(fifo_path, O_RDONLY) returned, with all that the
\* writers of the session will have written: frames alone, or bytes that are
\* no frame followed by frames.
Listening(prefixes, lists) ==
    \E prefix \in prefixes, frames \in lists :
        listener = [receive_fd |-> 3, fifo |-> prefix \o Concat([i \in 1..Len(frames) |-> Frame(frames[i])]),
                    buf |-> <<>>, residuals |-> 0, delivered |-> <<>>,
                    session |-> prefix \o Concat([i \in 1..Len(frames) |-> Frame(frames[i])]),
                    frames |-> IF prefix = <<>> THEN frames ELSE <<>>]

ServerResting == faults = 0 /\ Booted({"fcfs"}, 1, {PlainTask})

InitListen ==
    /\ ServerResting /\ StatusIdle /\ sender = NoSender /\ OthersIdle
    /\ Listening({<<>>}, FrameLists)

SpecListen == InitListen /\ [][ListenRead]_vars

InitListenAny ==
    /\ ServerResting /\ StatusIdle /\ sender = NoSender /\ OthersIdle
    /\ Listening(Garbage, FrameLists \cup {<<>>})

SpecListenAny == InitListenAny /\ [][ListenRead]_vars

(***************************************************************************)
(* C11: the listener passes every well-formed frame of the byte stream to  *)
(* on_message exactly once and in stream order, however the stream is      *)
(* split across read() calls: what was passed so far is a prefix of the    *)
(* messages of the stream, and all of them were passed when the session    *)
(* ends.                                                                   *)
(***************************************************************************)
IsPrefix(a, b) == Len(a) <= Len(b) /\ a = SubSeq(b, 1, Len(a))

C11_FramesPassedOnceInOrder ==
    /\ IsPrefix(listener.delivered, listener.frames)
    /\ listener.receive_fd = -1 => listener.delivered = listener.frames

(***************************************************************************)
(* C12: a session whose byte stream does not begin with the signature      *)
(* 0xFEEDFEED never has on_message invoked, whatever its length.           *)
(***************************************************************************)
BeginsWithSignature(bytes) ==
    /\ Len(bytes) >= 4
    /\ SubSeq(bytes, 1, 4) = Uint32Bytes(IPC_MESSAGE_HEADER_SIGNATURE)

C12_NoSignatureNoMessage ==
    ~BeginsWithSignature(listener.session) => listener.delivered = <<>>

(***************************************************************************)
(* The log file and the status children (log_file.c, status.c). A status   *)
(* child is forked with a copy of the memory of the server (the log handle *)
(* with its task_count, the task scheduler) and with the descriptor of the *)
(* log: parent and children share one open file, hence one file offset.    *)
(* The file is a sequence of records, the offset counts records, a record  *)
(* is the id of its task; every lseek(), read() and write() is a step.     *)
(***************************************************************************)
MaxRecords == 9   \* records in the file when a replay runs alone
MaxLogTasks == 2  \* tasks the server holds while status children run
MaxStatus == 2    \* status children forked

LOG_FILE_READ_BATCH == 4  \* LOG_FILE_READ_BUFFER_SIZE, in records

NoChild ==
    [pc |-> "none", task_count |-> 0, running |-> {}, queued |-> {},
     logged |-> {}, outputted_tasks |-> 0, out |-> <<>>]

\* write(log_file->fd, &serialized, sizeof serialized) and task_count++: the
\* record goes where the offset of the descriptor is.
WriteRecord(file, record) ==
    [disk |-> IF file.offset < Len(file.disk)
              THEN [file.disk EXCEPT ![file.offset + 1] = record]
              ELSE Append(file.disk, record),
     offset |-> file.offset + 1,
     task_count |-> file.task_count + 1]

\* The loop "for (i = 0; i < tasks_read; ++i)" of log_file_read_tasks over the
\* records of one read(): the callback for each record, until outputted_tasks
\* equals task_count, where "break" leaves this loop.
RECURSIVE ForRecords(_, _, _, _)
ForRecords(records, outputted_tasks, task_count, out) ==
    IF records = <<>>
    THEN [outputted_tasks |-> outputted_tasks, out |-> out]
    ELSE IF outputted_tasks + 1 = task_count
    THEN [outputted_tasks |-> outputted_tasks + 1,
          out |-> Append(out, [id |-> Head(records), status |-> "DONE"])]
    ELSE ForRecords(Tail(records), outputted_tasks + 1, task_count,
                    Append(out, [id |-> Head(records), status |-> "DONE"]))

\* What the steps of the server and of the status children on the log leave
\* alone.
SystemResting ==
    UNCHANGED <<faults, now, spc, pipe, inbuf, proc, scheduler, status_scheduler,
                next_task_id, log, accepted, replies, lost, discarded, unreaped,
                listener, sender, others>>

\* The server dispatches a queued task.
DispatchTask(t) ==
    /\ task_states[t] = "queued"
    /\ task_states' = [task_states EXCEPT ![t] = "running"]
    /\ UNCHANGED <<log_file, status_procs>>
    /\ SystemResting

\* The server handles the TASK_DONE of a running task: scheduler_mark_done
\* and log_file_write_task.
CompleteTask(t) ==
    /\ task_states[t] = "running"
    /\ task_states' = [task_states EXCEPT ![t] = "done"]
    /\ log_file' = WriteRecord(log_file, t)
    /\ UNCHANGED status_procs
    /\ SystemResting

\* The server handles a STATUS request: fork() of a status child.
ForkStatus(c) ==
    /\ status_procs[c].pc = "none"
    /\ status_procs' =
          [status_procs EXCEPT ![c] =
              [pc |-> "forked", task_count |-> log_file.task_count,
               running |-> {t \in DOMAIN task_states : task_states[t] = "running"},
               queued |-> {t \in DOMAIN task_states : task_states[t] = "queued"},
               logged |-> {t \in DOMAIN task_states : task_states[t] = "done"},
               outputted_tasks |-> 0, out |-> <<>>]]
    /\ UNCHANGED <<log_file, task_states>>
    /\ SystemResting

\* log_file_read_tasks in the child: lseek(fd, 0, SEEK_SET)
ReplaySeek(c) ==
    /\ status_procs[c].pc = "forked"
    /\ status_procs' = [status_procs EXCEPT ![c].pc = "reading"]
    /\ log_file' = [log_file EXCEPT !.offset = 0]
    /\ UNCHANGED task_states
    /\ SystemResting

\* One turn of "while ((bytes_read = read(...)))": a read() of up to four
\* records from the offset, and the loop over them; read() returning 0 ends
\* the while loop.
ReplayRead(c) ==
    LET tasks_read == Min(LOG_FILE_READ_BATCH, Len(log_file.disk) - log_file.offset)
        records == SubSeq(log_file.disk, log_file.offset + 1,
                          log_file.offset + tasks_read)
        after == ForRecords(records, status_procs[c].outputted_tasks,
                            status_procs[c].task_count, status_procs[c].out)
    IN  /\ status_procs[c].pc = "reading"
        /\ log_file' = [log_file EXCEPT !.offset = @ + tasks_read]
        /\ status_procs' =
              IF tasks_read = 0
              THEN [status_procs EXCEPT ![c].pc = "at_end"]
              ELSE [status_procs EXCEPT ![c].outputted_tasks = after.outputted_tasks,
                                        ![c].out = after.out]
        /\ UNCHANGED task_states
        /\ SystemResting

\* the tasks of a set, in some order, with a status
RECURSIVE Reported(_, _)
Reported(ids, status) ==
    IF ids = {} THEN <<>>
    ELSE LET t == CHOOSE x \in ids : \A y \in ids : x <= y
         IN  <<[id |-> t, status |-> status]>> \o Reported(ids \ {t}, status)

\* lseek(fd, 0, SEEK_END) at the end of log_file_read_tasks, and the rest of
\* status_main: the tasks of the child's copy of the scheduler, the running
\* ones and then the queued ones.
ReplayEnd(c) ==
    /\ status_procs[c].pc = "at_end"
    /\ log_file' = [log_file EXCEPT !.offset = Len(log_file.disk)]
    /\ status_procs' =
          [status_procs EXCEPT
              ![c].pc = "done",
              ![c].out = @ \o Reported(status_procs[c].running, "EXECUTING")
                           \o Reported(status_procs[c].queued, "QUEUED")]
    /\ UNCHANGED task_states
    /\ SystemResting

\* A replay that runs alone: a child forked when the handle had written
\* task_count records, started after the server wrote the rest of the file.
InitReplay ==
    /\ ServerResting
    /\ listener = NoListener
    /\ sender = NoSender
    /\ OthersIdle
    /\ \E n \in 0..MaxRecords :
          /\ log_file = [disk |-> [i \in 1..n |-> i], offset |-> n, task_count |-> n]
          /\ task_states = [t \in 1..n |-> "done"]
          /\ \E w \in 0..n :
                status_procs = <<[NoChild EXCEPT !.pc = "forked", !.task_count = w,
                                                 !.logged = 1..w]>>

NextReplay ==
    \/ \E c \in DOMAIN status_procs : ReplaySeek(c)
    \/ \E c \in DOMAIN status_procs : ReplayRead(c)
    \/ \E c \in DOMAIN status_procs : ReplayEnd(c)

SpecReplay == InitReplay /\ [][NextReplay]_vars

\* The server completing tasks while status children replay the log.
InitStatus ==
    /\ ServerResting
    /\ listener = NoListener
    /\ sender = NoSender
    /\ OthersIdle
    /\ log_file = NoLogFile
    /\ task_states \in [1..MaxLogTasks -> {"queued", "running"}]
    /\ status_procs = [c \in 1..MaxStatus |-> NoChild]

NextStatus ==
    \/ \E t \in DOMAIN task_states : DispatchTask(t)
    \/ \E t \in DOMAIN task_states : CompleteTask(t)
    \/ \E c \in DOMAIN status_procs : ForkStatus(c)
    \/ \E c \in DOMAIN status_procs : ReplaySeek(c)
    \/ \E c \in DOMAIN status_procs : ReplayRead(c)
    \/ \E c \in DOMAIN status_procs : ReplayEnd(c)

SpecStatus == InitStatus /\ [][NextStatus]_vars

\* the ids a child reported with a status
ReportedAs(c, status) ==
    SelectSeq(status_procs[c].out, LAMBDA r : r.status = status)

(***************************************************************************)
(* C13: log_file_read_tasks invokes the callback for exactly the first     *)
(* min(task_count, records on disk) records of the file, for every         *)
(* task_count >= 0 and every number of records on disk.                    *)
(***************************************************************************)
C13_ReplayStopsAtTaskCount ==
    \A c \in DOMAIN status_procs :
        status_procs[c].pc = "done" =>
            status_procs[c].out =
                [i \in 1..Min(status_procs[c].task_count, Len(log_file.disk)) |->
                    [id |-> log_file.disk[i], status |-> "DONE"]]

(***************************************************************************)
(* C14: a status child never reports as DONE a task whose log record the   *)
(* server wrote after forking that child, for every interleaving of the    *)
(* child's replay with the later appends of the server.                    *)
(***************************************************************************)
C14_ChildReportsNoLaterRecord ==
    \A c \in DOMAIN status_procs :
        \A i \in 1..Len(ReportedAs(c, "DONE")) :
            ReportedAs(c, "DONE")[i].id \in status_procs[c].logged

(***************************************************************************)
(* C15: whenever the server appends a record, the file offset of the log   *)
(* is at end-of-file, so an append never overwrites an existing record,    *)
(* also while forked status children replay the log through the descriptor *)
(* they inherited.                                                         *)
(***************************************************************************)
C15_AppendAtEndOfFile ==
    [][log_file'.task_count # log_file.task_count
       => /\ log_file.offset = Len(log_file.disk)
          /\ SubSeq(log_file'.disk, 1, Len(log_file.disk)) = log_file.disk]_vars

(***************************************************************************)
(* C16: every task accepted before a status child was forked appears       *)
(* exactly once in the reply stream of that child, once among its DONE,    *)
(* EXECUTING and QUEUED records, while the server completes tasks, appends *)
(* to the log and forks other status children.                             *)
(***************************************************************************)
TimesReported(c, t) ==
    Cardinality({i \in 1..Len(status_procs[c].out) : status_procs[c].out[i].id = t})

C16_AcceptedTaskReportedOnce ==
    \A c \in DOMAIN status_procs :
        \A t \in status_procs[c].logged \cup status_procs[c].running
                    \cup status_procs[c].queued :
            /\ TimesReported(c, t) <= 1
            /\ status_procs[c].pc = "done" => TimesReported(c, t) = 1

(***************************************************************************)
(* One reply of the server, call by call (ipc.c, server_requests.c): the   *)
(* handler opens the FIFO of the client with ipc_server_open_sending,      *)
(* sends the frame with ipc_send_retry and closes. The client made its     *)
(* FIFO before it sent its request and listens on it; a client that is     *)
(* killed leaves the FIFO behind, with no reader. open(O_WRONLY) of a FIFO *)
(* sleeps until the FIFO has a reader; write() to a FIFO whose readers are *)
(* gone fails with EPIPE, SIGPIPE being ignored.                           *)
(***************************************************************************)
MaxSendTries == 3  \* largest max_tries of a call of ipc_send_retry on its own

SERVER_REQUESTS_MAX_RETRIES == 16

\* Retrying after every failed write, whatever its errno.
AfterWriteRetried(s, outcome) ==
    IF outcome = "complete"
    THEN [s EXCEPT !.writes = @ + 1, !.complete = @ + 1, !.ret = 0, !.pc = "returned"]
    ELSE [s EXCEPT !.writes = @ + 1, !.errno = outcome, !.pc = "reopen",
                   !.epipe = IF outcome = "EPIPE" THEN @ + 1 ELSE @,
                   !.eintr = IF outcome = "EINTR" THEN @ + 1 ELSE @,
                   !.other = IF outcome = "EIO" THEN @ + 1 ELSE @]

\* One write() of the loop of ipc_send_retry and the tests on its result.
AfterWrite(s, outcome) ==
    IF outcome = "complete"
    THEN [s EXCEPT !.writes = @ + 1, !.complete = @ + 1, !.ret = 0, !.pc = "returned"]
    ELSE IF outcome \in {"EPIPE", "EINTR"}
    THEN [s EXCEPT !.writes = @ + 1, !.errno = outcome, !.pc = "reopen",
                   !.epipe = IF outcome = "EPIPE" THEN @ + 1 ELSE @,
                   !.eintr = IF outcome = "EINTR" THEN @ + 1 ELSE @]
    ELSE [s EXCEPT !.writes = @ + 1, !.errno = outcome, !.other = @ + 1,
                   !.ret = 1, !.pc = "returned"]

\* What write(send_fd) can return: the whole frame (a frame is at most
\* PIPE_BUF bytes, written at once), EINTR when a signal arrives while it
\* sleeps on a full FIFO, another error; EPIPE when the reader is gone.
WriteOutcomes(s) ==
    IF s.reader THEN {"complete", "EINTR", "EIO"} ELSE {"EPIPE", "EIO"}

\* What the steps of a reply leave alone.
ReplyResting ==
    UNCHANGED <<faults, now, spc, pipe, inbuf, proc, scheduler, status_scheduler,
                next_task_id, log, accepted, replies, lost, discarded, unreaped,
                listener, log_file, task_states, status_procs, others>>

\* The client is killed: its descriptors are closed, its FIFO stays.
ClientKilled ==
    /\ sender.client = "listening"
    /\ sender.pc \notin {"none", "done"}
    /\ sender' = [sender EXCEPT !.client = "dead", !.reader = FALSE]
    /\ ReplyResting

\* The other side leaves in order: its ipc_listen returned and ipc_free
\* closes its descriptors and unlinks its FIFO.
PeerLeaves ==
    /\ sender.client = "listening"
    /\ sender.pc \notin {"none", "done"}
    /\ sender' = [sender EXCEPT !.client = "dead", !.reader = FALSE, !.fifo = FALSE]
    /\ ReplyResting

\* open(fifo_path, O_WRONLY): fails when the FIFO is gone, returns when the
\* client has or gets its reading end open, sleeps when nobody will read.
OpenFifo(s) ==
    IF ~s.fifo THEN "ENOENT"
    ELSE IF s.client = "listening" THEN "opened"
    ELSE "asleep"

\* ipc_server_open_sending in the handler
OpenSending ==
    /\ sender.pc = "open"
    /\ sender' =
          IF OpenFifo(sender) = "ENOENT"
          THEN [sender EXCEPT !.ret = 1, !.errno = "ENOENT", !.pc = "done"]
          ELSE IF OpenFifo(sender) = "opened"
          THEN [sender EXCEPT !.send_fd = 1, !.reader = TRUE, !.pc = "call"]
          ELSE [sender EXCEPT !.pc = "asleep"]
    /\ ReplyResting

\* ipc_send_retry up to its loop: the tests of its arguments
SendRetryEnter ==
    /\ sender.pc = "call"
    /\ sender' =
          IF sender.send_fd < 0 \/ sender.max_tries = 0
          THEN [sender EXCEPT !.ret = 1, !.errno = "EINVAL", !.pc = "returned"]
          ELSE [sender EXCEPT !.i = 0, !.recovered = 0, !.pc = "write"]
    /\ ReplyResting

\* the write() of one turn of the loop
SendRetryWrite ==
    /\ sender.pc = "write"
    /\ \E outcome \in WriteOutcomes(sender) : sender' = AfterWrite(sender, outcome)
    /\ ReplyResting

\* the open() after EPIPE or EINTR, recovered++ and the "++i" and
\* "i < max_tries" of the loop; errno = ETIMEDOUT after the loop
SendRetryReopen ==
    /\ sender.pc = "reopen"
    /\ sender' =
          IF OpenFifo(sender) = "ENOENT"
          THEN [sender EXCEPT !.send_fd = -1, !.ret = 1, !.errno = "ENOENT",
                              !.pc = "returned"]
          ELSE IF OpenFifo(sender) = "opened"
          THEN IF sender.i + 1 < sender.max_tries
               THEN [sender EXCEPT !.send_fd = 1, !.reader = TRUE, !.recovered = @ + 1,
                                   !.i = @ + 1, !.pc = "write"]
               ELSE [sender EXCEPT !.send_fd = 1, !.reader = TRUE, !.recovered = @ + 1,
                                   !.i = @ + 1, !.ret = 1, !.errno = "ETIMEDOUT",
                                   !.pc = "returned"]
          ELSE [sender EXCEPT !.pc = "asleep"]
    /\ ReplyResting

\* ipc_server_close_sending, and the handler returns to ipc_listen
CloseSending ==
    /\ sender.pc = "returned"
    /\ sender' = [sender EXCEPT !.send_fd = -1, !.pc = "done"]
    /\ ReplyResting

\* The server starts the reply of a handler to a client that sent its request,
\* or ipc_send_retry is called on an open connection with some max_tries.
InitReply ==
    /\ ServerResting
    /\ StatusIdle
    /\ listener = NoListener
    /\ OthersIdle
    /\ \/ sender = [NoSender EXCEPT !.pc = "open", !.client = "listening",
                                    !.fifo = TRUE,
                                    !.max_tries = SERVER_REQUESTS_MAX_RETRIES]
       \/ \E max_tries \in 0..MaxSendTries :
             sender = [NoSender EXCEPT !.pc = "call", !.client = "listening",
                                       !.fifo = TRUE, !.reader = TRUE, !.send_fd = 1,
                                       !.max_tries = max_tries]

NextReply ==
    \/ ClientKilled
    \/ PeerLeaves
    \/ OpenSending
    \/ SendRetryEnter
    \/ SendRetryWrite
    \/ SendRetryReopen
    \/ CloseSending

SpecReply == InitReply /\ [][NextReply]_vars

(***************************************************************************)
(* C17: when the client dies between its request and the reply, the reply  *)
(* attempt of the server ends after a bounded number of attempts: the      *)
(* server never sleeps in a call that nothing will end, so it goes on to   *)
(* the later messages; the schedulers are as the handler left them before  *)
(* the reply.                                                              *)
(***************************************************************************)
C17_ReplyToDeadClientEnds ==
    /\ sender.pc # "asleep"
    /\ sender.writes <= sender.max_tries

(***************************************************************************)
(* C18: ipc_send_retry with max_tries makes at most max_tries write        *)
(* attempts; it returns success after the first complete write, fails at   *)
(* once with the error of the write on a write error other than EPIPE and  *)
(* EINTR, and fails with ETIMEDOUT when every attempt failed with EPIPE or *)
(* EINTR.                                                                  *)
(***************************************************************************)
Returned == sender.pc \in {"returned", "done"} /\ sender.writes > 0

AtMostMaxTriesWrites == sender.writes <= sender.max_tries

SuccessAfterFirstCompleteWrite ==
    /\ sender.complete <= 1
    /\ sender.complete = 1 =>
          Returned /\ sender.ret = 0 /\ sender.writes = sender.epipe + sender.eintr + 1
    /\ Returned /\ sender.ret = 0 => sender.complete = 1

OtherErrorFailsAtOnce ==
    /\ sender.other <= 1
    /\ sender.other = 1 =>
          /\ Returned /\ sender.ret = 1 /\ sender.errno = "EIO"
          /\ sender.writes = sender.epipe + sender.eintr + 1

EveryAttemptFailed ==
    Returned /\ sender.writes = sender.epipe + sender.eintr

MaxFinishing == 2  \* status children that end while the new request is handled

EarlierClient == <<"sclient", 0>>

\* scheduler_add_task for each of n STATUS requests
RECURSIVE AddStatusTasks(_, _)
AddStatusTasks(sched, n) ==
    IF n = 0 THEN sched
    ELSE AddStatusTasks(
             scheduler_add_task(sched,
                 tagged_task_new_from_procedure(EarlierClient, 0, U32(0, 0))),
             n - 1)

\* The status scheduler after n requests were added and dispatched.
StatusSchedulerAfter(n) ==
    scheduler_dispatch_possible(
        AddStatusTasks(scheduler_new("fcfs", SERVER_REQUESTS_MAXIMUM_STATUS_TASKS), n),
        SERVER_REQUESTS_MAXIMUM_STATUS_TASKS + 1,
        [tv_sec |-> 0, tv_nsec |-> 1]).scheduler

Finishing ==
    {w \in StatusChildren : w[2] >= SERVER_REQUESTS_MAXIMUM_STATUS_TASKS - MaxFinishing}

InitStatusFull ==
    /\ faults = MaxFaults
    /\ now = [tv_sec |-> 0, tv_nsec |-> 1]
    /\ spc = "closed"
    /\ pipe = <<>>
    /\ inbuf = <<>>
    /\ proc = [w \in Procs |->
                 IF w \in StatusChildren THEN ForkedChild
                 ELSE IF w \in StatusClients
                 THEN [pc |-> "start", tries |-> 0,
                       msg |-> [type |-> "STATUS", client_pid |-> w]]
                 ELSE NoProc]
    /\ scheduler = scheduler_new("fcfs", 1)
    /\ status_scheduler = StatusSchedulerAfter(SERVER_REQUESTS_MAXIMUM_STATUS_TASKS)
    /\ next_task_id = 1
    /\ log = [records |-> <<>>, task_count |-> 0]
    /\ accepted = <<>>
    /\ replies = <<>>
    /\ lost = <<>>
    /\ discarded = {}
    /\ unreaped = 0
    /\ ComponentsIdle

NextStatusFull ==
    \/ \E w \in StatusClients : WriterOpen(w)
    \/ \E w \in StatusClients \cup Finishing : RetrySend(w)
    \/ \E w \in StatusClients \cup Finishing : WriterClose(w)
    \/ \E w \in Finishing : StatusChildRun(w)
    \/ ServerOpen
    \/ ServerRead
    \/ ServerEOF
    \/ ServerClose
    \/ __server_requests_on_done_message
    \/ __server_requests_on_status_message

SpecStatusFull == InitStatusFull /\ [][NextStatusFull]_vars

\* The step of the handler of a STATUS request.
HandlesStatus ==
    spc = "handle" /\ inbuf # <<>> /\ Message.type = "STATUS" /\ inbuf' = Tail(inbuf)

StatusFull == Occupied(status_scheduler) = SlotIndices(status_scheduler)

Handles(type) ==
    spc = "handle" /\ inbuf # <<>> /\ Message.type = type /\ inbuf' = Tail(inbuf)

C20_FramesChangeOnlyTheirScheduler ==
    [][/\ Handles("STATUS") => scheduler' = scheduler /\ log' = log
       /\ Handles("TASK_DONE") /\ Message.is_status = 1 =>
             scheduler' = scheduler /\ log' = log
       /\ Handles("TASK_DONE") /\ Message.is_status = 0 =>
             status_scheduler' = status_scheduler]_vars

\* A status child was forked, ran and was reaped while the task scheduler
\* held a task, and a task was logged.
C20_StatusChildReapedWhileTaskHeld ==
    /\ \E i \in 1..Len(replies) : replies[i].frame = StatusMessage
    /\ \A w \in StatusChildren : proc[w].pc = "none"
    /\ Occupied(status_scheduler) = {}
    /\ Occupied(scheduler) # {}
    /\ Len(log.records) > 0

(***************************************************************************)
(* The records of a status reply (log_file.c, protocol.c, status.c)        *)
(***************************************************************************)
\* A deserializer that leaves the timestamps of the new task unset.
__log_file_deserialize_task_untimed(record) ==
    IF record.command_length > PROTOCOL_MAXIMUM_COMMAND_LENGTH
    THEN [null |-> TRUE, errno |-> "EMSGSIZE"]
    ELSE tagged_task_new_from_command_line(
             SubSeq(record.command_line, 1, record.command_length),
             record.id, record.expected_time)

\* The task rebuilt from a record of the log: the command line is parsed
\* again and the five timestamps are copied.
__log_file_deserialize_task(record) ==
    IF record.command_length > PROTOCOL_MAXIMUM_COMMAND_LENGTH
    THEN [null |-> TRUE, errno |-> "EMSGSIZE"]
    ELSE LET ret == tagged_task_new_from_command_line(
                        SubSeq(record.command_line, 1, record.command_length),
                        record.id, record.expected_time)
         IN  IF ret.null THEN ret
             ELSE [null |-> FALSE,
                   task |-> [ret.task EXCEPT !.times = record.times]]

\* The status protocol_status_response_message_new infers from the
\* timestamps __status_send_message read with tagged_task_get_time.
protocol_status_response_message_new(task) ==
    IF ~tagged_task_get_time(task, TAGGED_TASK_TIME_COMPLETED).null THEN "DONE"
    ELSE IF ~tagged_task_get_time(task, TAGGED_TASK_TIME_DISPATCHED).null
    THEN "EXECUTING"
    ELSE "QUEUED"

TaskStatuses == {"DONE", "EXECUTING", "QUEUED"}

\* What a status child may send for a record of the log; none when the record
\* cannot be deserialized.
RecordStatuses(record) ==
    LET d == __log_file_deserialize_task(record) IN
    IF d.null THEN {} ELSE {protocol_status_response_message_new(d.task)}

\* What a status child may send for slot i of its copy of the task scheduler.
\* The task of a slot whose fork() failed was freed: reading it is undefined.
SlotStatuses(i) ==
    IF scheduler.slots[i].freed THEN TaskStatuses
    ELSE {protocol_status_response_message_new(scheduler.slots[i].task)}

(***************************************************************************)
(* C21: in a status reply every record replayed from the log is reported   *)
(* as DONE, every task of an occupied slot as EXECUTING and every queued   *)
(* task as QUEUED; a status child may be forked in any state of the server *)
(* and reports from its copy of that state.                                *)
(***************************************************************************)
C21_StatusTellsWhereTheTaskIs ==
    /\ \A i \in 1..Len(log.records) : RecordStatuses(log.records[i]) = {"DONE"}
    /\ \A i \in Occupied(scheduler) : SlotStatuses(i) = {"EXECUTING"}
    /\ \A i \in 1..Len(scheduler.queue) :
          protocol_status_response_message_new(scheduler.queue[i]) = "QUEUED"

(***************************************************************************)
(* One run of task_runner_main for a task of programs (task_runner.c), and *)
(* what becomes of its error flag: the TASK_DONE frame, the record of the  *)
(* log, the record of a status reply.                                      *)
(***************************************************************************)
MaxPrograms == 3  \* programs in the pipeline of the task

\* What becomes of a program once __task_runner_spawn forked its process:
\* execvp() runs it and it exits with 0, or with another status, or execvp()
\* fails and the process prints a message and calls _exit(1).
SpawnOutcomes == {"exited_zero", "exited_nonzero", "exec_failed"}

\* What the steps of a runner leave alone.
RunnerResting ==
    UNCHANGED <<faults, now, spc, pipe, inbuf, proc, scheduler, status_scheduler,
                next_task_id, log, accepted, replies, lost, discarded, unreaped,
                listener, log_file, task_states, status_procs, sender,
                client_run, call>>

\* One turn of the loop over the programs but the last: pipe() and
\* __task_runner_spawn; when one of them fails the runner waits for its
\* children and calls __task_runner_warn_parent(slot, 1).
RunnerSpawnPiped ==
    /\ runner.pc = "spawn"
    /\ runner.i < runner.nprograms - 1
    /\ \E result \in {"pipe_failed", "fork_failed"} \cup SpawnOutcomes :
          runner' = IF result \in {"pipe_failed", "fork_failed"}
                    THEN [runner EXCEPT !.pc = "warn", !.error = 1]
                    ELSE [runner EXCEPT !.spawned = Append(@, result), !.i = @ + 1]
    /\ RunnerResting

\* __task_runner_spawn of the last program: its return value is not read.
RunnerSpawnLast ==
    /\ runner.pc = "spawn"
    /\ runner.i = runner.nprograms - 1
    /\ \E result \in {"fork_failed"} \cup SpawnOutcomes :
          runner' = [runner EXCEPT
                        !.spawned = IF result = "fork_failed" THEN @
                                    ELSE Append(@, result),
                        !.pc = "wait"]
    /\ RunnerResting

\* __task_runner_wait_all_children: wait(NULL) until ECHILD, the exit
\* statuses are not read; then __task_runner_warn_parent(slot, 0).
RunnerWaitAll ==
    /\ runner.pc = "wait"
    /\ runner' = [runner EXCEPT !.pc = "warn", !.error = 0]
    /\ RunnerResting

\* __task_runner_warn_parent: the TASK_DONE frame
RunnerWarnParent ==
    /\ runner.pc = "warn"
    /\ runner' = [runner EXCEPT !.pc = "sent",
                                !.message = TaskDone(0, 0, runner.error)]
    /\ RunnerResting

\* __server_requests_on_done_message: log_file_write_task(log, task,
\* fields->error)
RunnerLogged ==
    /\ runner.pc = "sent"
    /\ runner' =
          [runner EXCEPT
              !.pc = "logged",
              !.record = __log_file_serialize_task(
                             tagged_task_new_from_command_line(OneProgram, 1,
                                                               U32(0, 1)).task,
                             runner.message.error).record]
    /\ RunnerResting

\* __status_send_message for the record: the error flag of the record is
\* cast to void and not handed to the constructor of the message, so the
\* flag of the message does not come from the record.
RunnerReported ==
    /\ runner.pc = "logged"
    /\ \E error \in {0, 1} :
          runner' = [runner EXCEPT
                        !.pc = "reported",
                        !.response = [type |-> "STATUS", id |-> runner.record.id,
                                      status |-> "DONE", error |-> error]]
    /\ RunnerResting

InitRunner ==
    /\ ServerResting
    /\ listener = NoListener /\ StatusIdle /\ sender = NoSender
    /\ client_run = NoClient /\ call = NoCall
    /\ \E nprograms \in 1..MaxPrograms :
          runner = [pc |-> "spawn", nprograms |-> nprograms, i |-> 0,
                    spawned |-> <<>>, error |-> 0, message |-> NoMsg,
                    record |-> NoMsg, response |-> NoMsg]

NextRunner ==
    \/ RunnerSpawnPiped
    \/ RunnerSpawnLast
    \/ RunnerWaitAll
    \/ RunnerWarnParent
    \/ RunnerLogged
    \/ RunnerReported

SpecRunner == InitRunner /\ [][NextRunner]_vars

ExecFailed == \E k \in 1..Len(runner.spawned) : runner.spawned[k] = "exec_failed"

(***************************************************************************)
(* C22: when a program of the task could not be executed (execvp failed),  *)
(* the record of the task in the log and the record of a status reply for  *)
(* it carry a set error flag.                                              *)
(***************************************************************************)
C22_ExecFailureSetsErrorFlag ==
    ExecFailed =>
        /\ runner.pc \in {"logged", "reported"} => runner.record.error = 1
        /\ runner.pc = "reported" => runner.response.error = 1

(***************************************************************************)
(* One run of the client program (client/main.c, client_requests.c): its   *)
(* arguments, the frames it reads from its FIFO, what ipc_listen returns   *)
(* and the exit code of the process.                                       *)
(***************************************************************************)
MaxReceived == 2  \* frames the client reads in one run

\* The command lines main() tells apart.
ClientArgs == {"usage", "help", "status", "execute_u", "execute_p"}

\* The frames __client_requests_on_message tells apart.
ClientFrames == {"ERROR", "ERROR_bad_length", "TASK_ID", "STATUS", "bad_type"}

\* What the steps of a client leave alone.
ClientResting ==
    UNCHANGED <<faults, now, spc, pipe, inbuf, proc, scheduler, status_scheduler,
                next_task_id, log, accepted, replies, lost, discarded, unreaped,
                listener, log_file, task_states, status_procs, sender,
                runner, call>>

ClientExits(code, failure) ==
    client_run' = [client_run EXCEPT !.pc = "exited", !.code = code,
                                     !.failure = failure]

\* main(): help prints the usage and returns 0, any command line that is
\* not help, status or execute returns what __main_help_message returns, 1
ClientMain ==
    /\ client_run.pc = "main"
    /\ CASE client_run.args = "usage" -> ClientExits(1, "usage")
         [] client_run.args = "help" -> ClientExits(0, "none")
         [] client_run.args = "status" ->
               client_run' = [client_run EXCEPT !.pc = "ipc_new"]
         [] OTHER -> client_run' = [client_run EXCEPT !.pc = "message_new"]
    /\ ClientResting

\* protocol_send_program_task_message_new: an empty or too long command
\* line returns 1
ClientMessageNew ==
    /\ client_run.pc = "message_new"
    /\ \E ok \in BOOLEAN :
          IF ok THEN client_run' = [client_run EXCEPT !.pc = "ipc_new"]
          ELSE ClientExits(1, "message")
    /\ ClientResting

\* ipc_new(IPC_ENDPOINT_CLIENT): no FIFO of the server returns 1
ClientIpcNew ==
    /\ client_run.pc = "ipc_new"
    /\ \E ok \in BOOLEAN :
          IF ok THEN client_run' = [client_run EXCEPT !.pc = "send"]
          ELSE ClientExits(1, "ipc_new")
    /\ ClientResting

\* ipc_send (execute) or ipc_send_retry (status): a failure returns 1
ClientRunSend ==
    /\ client_run.pc = "send"
    /\ \E ok \in BOOLEAN :
          IF ok THEN client_run' = [client_run EXCEPT !.pc = "listen_open"]
          ELSE ClientExits(1, "send")
    /\ ClientResting

\* ipc_listen: open() of the FIFO of the client; a failure returns 1
ClientListenOpen ==
    /\ client_run.pc = "listen_open"
    /\ \E ok \in BOOLEAN :
          client_run' = IF ok THEN [client_run EXCEPT !.pc = "listening"]
                        ELSE [client_run EXCEPT !.pc = "listened",
                                                !.listen_res = 1,
                                                !.failure = "listen"]
    /\ ClientResting

\* ipc_listen passes a frame to __client_requests_on_message, which returns
\* 2 for an ERROR frame of a valid length and 0 for every other frame; a
\* return value that is not 0 is what ipc_listen returns.
ClientOnMessage ==
    /\ client_run.pc = "listening"
    /\ Len(client_run.received) < MaxReceived
    /\ \E frame \in ClientFrames :
          client_run' =
              IF frame = "ERROR"
              THEN [client_run EXCEPT !.received = Append(@, frame),
                                      !.pc = "listened", !.listen_res = 2]
              ELSE [client_run EXCEPT !.received = Append(@, frame)]
    /\ ClientResting

\* ipc_listen reads the end of file (or read() fails): it calls
\* __client_requests_before_block, which returns -1, and returns it.
ClientBeforeBlock ==
    /\ client_run.pc = "listening"
    /\ client_run' = [client_run EXCEPT !.pc = "listened", !.listen_res = -1]
    /\ ClientResting

\* After ipc_listen: __client_requests_send_program_task returns
\* listen_res == 2, client_request_ask_status returns 0.
ClientReturn ==
    /\ client_run.pc = "listened"
    /\ client_run' =
          [client_run EXCEPT
              !.pc = "exited",
              !.code = IF client_run.args = "status" THEN 0
                       ELSE IF client_run.listen_res = 2 THEN 1 ELSE 0]
    /\ ClientResting

InitClient ==
    /\ ServerResting
    /\ listener = NoListener /\ StatusIdle /\ sender = NoSender
    /\ runner = NoRunner /\ call = NoCall
    /\ \E args \in ClientArgs :
          client_run = [pc |-> "main", args |-> args, received |-> <<>>,
                        listen_res |-> 0, failure |-> "none", code |-> 0]

NextClient ==
    \/ ClientMain
    \/ ClientMessageNew
    \/ ClientIpcNew
    \/ ClientRunSend
    \/ ClientListenOpen
    \/ ClientOnMessage
    \/ ClientBeforeBlock
    \/ ClientReturn

SpecClient == InitClient /\ [][NextClient]_vars

\* The client read a frame of the type.
ClientReceived(type) ==
    \E k \in 1..Len(client_run.received) : client_run.received[k] = type

(***************************************************************************)
(* C23: the exit code of the client is 0 when the server answered TASK_ID  *)
(* or streamed a status, 1 on a usage error or a failure of the transport, *)
(* and 2 when the server answered with an ERROR frame.                     *)
(***************************************************************************)
C23_ClientExitCodes ==
    client_run.pc = "exited" =>
        /\ client_run.failure # "none" => client_run.code = 1
        /\ ClientReceived("ERROR") => client_run.code = 2
        /\ /\ client_run.failure = "none"
           /\ ~ClientReceived("ERROR")
           /\ ClientReceived("TASK_ID") \/ ClientReceived("STATUS")
           => client_run.code = 0

\* The server handles a submission frame of the type whose command line
\* parses into more than one program.
HandlesSeveralPrograms(type) ==
    /\ spc = "handle"
    /\ inbuf' = Tail(inbuf)
    /\ Message.type = type
    /\ command_parser_parse_task(Message.command_line).ok
    /\ Len(command_parser_parse_task(Message.command_line).programs) > 1

\* The tasks of the queue after the step that were not in it before.
Enqueued ==
    {scheduler'.queue[j] : j \in 1..Len(scheduler'.queue)} \
        {scheduler.queue[j] : j \in 1..Len(scheduler.queue)}

RoundTripTimes ==
    {ZeroTime, [tv_sec |-> 0, tv_nsec |-> MaxNsec], [tv_sec |-> MaxSec, tv_nsec |-> 0]}

\* Tagged tasks with every combination of set and unset timestamps.
RoundTripTasks ==
    {[tagged_task_new_from_command_line(command_line, id, expected_time).task
          EXCEPT !.times = times] :
        command_line \in {OneProgram, Pipeline}, id \in {1, 2},
        expected_time \in ExpectedTimes, times \in [TimeIds -> RoundTripTimes]}
    \cup {tagged_task_new_from_procedure(<<"client", 1>>, 1, U32(0, 1))}

\* What the steps of a call leave alone.
CallResting ==
    UNCHANGED <<faults, now, spc, pipe, inbuf, proc, scheduler, status_scheduler,
                next_task_id, log, accepted, replies, lost, discarded, unreaped,
                listener, log_file, task_states, status_procs, sender,
                runner, client_run>>

\* __log_file_serialize_task(task, &out, error)
CallSerialize ==
    /\ call.of = "round_trip"
    /\ call.pc = "task"
    /\ \E error \in {0, 1} :
          call' = [call EXCEPT !.pc = "serialized",
                               !.out = __log_file_serialize_task(call.task, error)]
    /\ CallResting

\* __log_file_deserialize_task(&out) of a record that was written
CallDeserialize ==
    /\ call.of = "round_trip"
    /\ call.pc = "serialized"
    /\ call.out.ok
    /\ call' = [call EXCEPT !.pc = "deserialized",
                            !.ret = __log_file_deserialize_task(call.out.record)]
    /\ CallResting

InitRoundTrip ==
    /\ ServerResting
    /\ listener = NoListener /\ StatusIdle /\ sender = NoSender
    /\ runner = NoRunner /\ client_run = NoClient
    /\ \E task \in RoundTripTasks :
          call = [of |-> "round_trip", pc |-> "task", task |-> task,
                  out |-> [ok |-> FALSE], ret |-> [null |-> TRUE]]

NextRoundTrip ==
    \/ CallSerialize
    \/ CallDeserialize

SpecRoundTrip == InitRoundTrip /\ [][NextRoundTrip]_vars

(***************************************************************************)
(* C25: for every tagged task whose command line fits a record of the log, *)
(* the record is written and deserializing it gives a task with the same   *)
(* id, expected time, command line and five timestamps.                    *)
(***************************************************************************)
C25_SerializeRoundTrip ==
    /\ call.of = "round_trip"
    /\ Len(call.task.command_line) <= PROTOCOL_MAXIMUM_COMMAND_LENGTH
    => /\ call.pc = "serialized" => call.out.ok
       /\ call.pc = "deserialized" =>
             /\ ~call.ret.null
             /\ call.ret.task.id = call.task.id
             /\ call.ret.task.expected_time = call.task.expected_time
             /\ call.ret.task.command_line = call.task.command_line
             /\ \A i \in TimeIds : call.ret.task.times[i] = call.task.times[i]

\* a pipeline with some timestamps set and the others not went through both
\* functions
C25_PartlyStampedPipelineBack ==
    /\ call.of = "round_trip"
    /\ call.pc = "deserialized"
    /\ call.task.command_line = Pipeline
    /\ call.task.times[TAGGED_TASK_TIME_ARRIVED] # ZeroTime
    /\ call.task.times[TAGGED_TASK_TIME_COMPLETED] = ZeroTime
    /\ ~call.ret.null

(***************************************************************************)
(* Sizes of the messages the constructors of protocol.c build, and what    *)
(* ipc_send makes of them (ipc.c).  A command line or an error text is     *)
(* its length here: the constructors read nothing else of it.              *)
(***************************************************************************)
MaxShortLength == 2   \* the short lengths go from 0 to this
LengthMargin == 16    \* the long lengths lie this near to PIPE_BUF

\* strlen() of the command lines and error texts of the calls
MessageLengths ==
    (0..MaxShortLength) \cup ((PIPE_BUF - 3 * LengthMargin)..(PIPE_BUF + LengthMargin))

SIZEOF_DOUBLE == 8

PROTOCOL_MAXIMUM_ERROR_LENGTH == IPC_MAXIMUM_MESSAGE_LENGTH - 1

PROTOCOL_STATUS_MAXIMUM_LENGTH == PIPE_BUF - 3 - 4 - 4 * SIZEOF_DOUBLE

\* [ok |-> FALSE] stands for the EMSGSIZE failure of a constructor.
protocol_send_program_task_message_new_size(len) ==
    IF len = 0 \/ len > PROTOCOL_MAXIMUM_COMMAND_LENGTH THEN [ok |-> FALSE]
    ELSE [ok |-> TRUE, size |-> 1 + SIZEOF_PID_T + SIZEOF_TIMESPEC + 4 + len]

protocol_error_message_new_size(len) ==
    IF len = 0 \/ len > PROTOCOL_MAXIMUM_ERROR_LENGTH THEN [ok |-> FALSE]
    ELSE [ok |-> TRUE, size |-> 1 + len]

protocol_status_response_message_new_size(len) ==
    IF len > PROTOCOL_STATUS_MAXIMUM_LENGTH THEN [ok |-> FALSE]
    ELSE [ok |-> TRUE, size |-> 3 + 4 + 4 * SIZEOF_DOUBLE + len]

\* The constructor of the kind of message, for a text of the length.
MessageNewSize(kind, len) ==
    CASE kind = "SEND" -> protocol_send_program_task_message_new_size(len)
      [] kind = "ERROR" -> protocol_error_message_new_size(len)
      [] kind = "STATUS" -> protocol_status_response_message_new_size(len)

\* ipc_send up to its write(): FALSE stands for the EMSGSIZE failure.
ipc_send_accepts(length) ==
    ~(length > IPC_MAXIMUM_MESSAGE_LENGTH \/ length = 0)

\* What the steps of a call leave alone (the call itself apart).
SizesResting ==
    UNCHANGED <<faults, now, spc, pipe, inbuf, proc, scheduler, status_scheduler,
                next_task_id, log, accepted, replies, lost, discarded, unreaped,
                listener, log_file, task_states, status_procs, sender,
                runner, client_run>>

\* One of the three constructors is called.
SizesMessageNew ==
    /\ call.of = "sizes"
    /\ call.pc = "text"
    /\ call' = [call EXCEPT !.pc = "constructed",
                            !.out = MessageNewSize(call.kind, call.len)]
    /\ SizesResting

\* ipc_send of a message a constructor built.
SizesSend ==
    /\ call.of = "sizes"
    /\ call.pc = "constructed"
    /\ call.out.ok
    /\ call' = [call EXCEPT !.pc = "sent", !.sent = ipc_send_accepts(call.out.size)]
    /\ SizesResting

\* __status_send_message for a task whose command line was accepted at
\* submission: the return value of protocol_status_response_message_new is
\* cast to void, and after its failure message_length was not written, so
\* that ipc_send gets whatever the variable holds.
SizesStatusOfSubmitted ==
    /\ call.of = "sizes"
    /\ call.pc = "sent"
    /\ call.kind = "SEND"
    /\ LET message == protocol_status_response_message_new_size(call.len) IN
       \E message_length \in IF message.ok THEN {message.size}
                             ELSE {0, 1, IPC_MAXIMUM_MESSAGE_LENGTH,
                                   IPC_MAXIMUM_MESSAGE_LENGTH + 1} :
          call' = [call EXCEPT !.pc = "status_sent",
                               !.status = message,
                               !.status_sent = ipc_send_accepts(message_length)]
    /\ SizesResting

InitSizes ==
    /\ ServerResting
    /\ listener = NoListener /\ StatusIdle /\ sender = NoSender
    /\ runner = NoRunner /\ client_run = NoClient
    /\ \E kind \in {"SEND", "ERROR", "STATUS"}, len \in MessageLengths :
          call = [of |-> "sizes", pc |-> "text", kind |-> kind, len |-> len,
                  out |-> [ok |-> FALSE], sent |-> FALSE,
                  status |-> [ok |-> FALSE], status_sent |-> FALSE]

NextSizes ==
    \/ SizesMessageNew
    \/ SizesSend
    \/ SizesStatusOfSubmitted

SpecSizes == InitSizes /\ [][NextSizes]_vars

(***************************************************************************)
(* C26: every message a constructor of the protocol accepts has a size     *)
(* from 1 to PIPE_BUF - 8 bytes; in particular every command line          *)
(* accepted at submission (of at most PROTOCOL_MAXIMUM_COMMAND_LENGTH      *)
(* bytes) gives a status message that is built and whose size ipc_send     *)
(* accepts.                                                                *)
(***************************************************************************)
C26_AcceptedMessagesFitAFrame ==
    call.of = "sizes" =>
        /\ call.pc # "text" /\ call.out.ok
              => call.out.size \in 1..(PIPE_BUF - 8)
        /\ call.pc = "status_sent"
              => /\ call.status.ok
                 /\ call.status.size \in 1..(PIPE_BUF - 8)
                 /\ call.status_sent

(***************************************************************************)
(* scheduler_dispatch_possible as a function of the scheduler it is        *)
(* called on (scheduler.c).                                                *)
(***************************************************************************)
\* The slots that are free in the scheduler before and taken in after.
SlotsTaken(before, after) ==
    {k \in SlotIndices(before) :
        before.slots[k].available /\ ~after.slots[k].available}

\* The task as it was before scheduler_dispatch_possible stamped it.
Undispatched(task) == [task EXCEPT !.times[TAGGED_TASK_TIME_DISPATCHED] = ZeroTime]

\* How many times the task is in the queue.
TimesQueued(queue, task) == Cardinality({i \in 1..Len(queue) : queue[i] = task})

\* How many of the slots hold the task, the DISPATCHED stamp apart.
TimesTaken(sched, slots, task) ==
    Cardinality({k \in slots : Undispatched(sched.slots[k].task) = task})

\* What a call that returned d.ret >= 0 did to the scheduler.
DispatchMovedTasks(before, d) ==
    /\ Cardinality(SlotsTaken(before, d.scheduler)) = d.ret
    /\ Len(d.forked) = d.ret
    /\ \A k \in SlotIndices(before) \ SlotsTaken(before, d.scheduler) :
          d.scheduler.slots[k] = before.slots[k]
    /\ d.scheduler.queue = <<>> \/ Occupied(d.scheduler) = SlotIndices(before)
    /\ Len(d.scheduler.queue) = Len(before.queue) - d.ret
    /\ \A i \in 1..Len(before.queue) :
          TimesQueued(before.queue, before.queue[i]) =
              TimesQueued(d.scheduler.queue, before.queue[i])
              + TimesTaken(d.scheduler, SlotsTaken(before, d.scheduler),
                           before.queue[i])

\* Every result the call can have on the scheduler, for each fork() that
\* may be the one to fail and for none.
DispatchResults(sched) ==
    {scheduler_dispatch_possible(sched, fork_fail_at, now) :
        fork_fail_at \in 1..(sched.ntasks + 1)}

(***************************************************************************)
(* C27: whenever scheduler_dispatch_possible returns d >= 0, exactly d     *)
(* tasks were moved from the queue into slots that were free, on return    *)
(* the queue is empty or no slot is free, and the tasks left in the queue  *)
(* are the ones that were in it (same ids and timestamps) less the         *)
(* dispatched ones.  Checked on every scheduler the server reaches.        *)
(***************************************************************************)
C27_DispatchMovesTasksToFreeSlots ==
    /\ \A d \in DispatchResults(scheduler) :
          d.ret >= 0 => DispatchMovedTasks(scheduler, d)
    /\ \A d \in DispatchResults(status_scheduler) :
          d.ret >= 0 => DispatchMovedTasks(status_scheduler, d)

\* the server is about to dispatch with more tasks queued than slots free:
\* the call dispatches some and leaves some queued
C27_SomeDispatchedSomeLeft ==
    /\ spc = "close"
    /\ \E d \in DispatchResults(scheduler) :
          /\ d.ret >= 1
          /\ d.scheduler.queue # <<>>

\* No fork() of a dispatch has failed: no slot holds a task that was freed.
NoForkFailed ==
    \A k \in SlotIndices(scheduler) : ~scheduler.slots[k].freed

\* The server sleeps in open(O_RDONLY) until a process opens the FIFO for
\* writing, or is about to call that open().
ServerWaitsForWriter == spc \in {"closed", "opening"}

(***************************************************************************)
(* C28: the server calls scheduler_dispatch_possible after every end of    *)
(* file and before the next open() that may block: the step that follows   *)
(* the end of file is the dispatch, and open() is only reached from it.    *)
(* So, when no fork() has failed, whenever the server waits for a writer   *)
(* the queue of tasks is empty or no slot is free.                         *)
(***************************************************************************)
C28_DispatchBeforeBlocking ==
    /\ [](NoForkFailed /\ ServerWaitsForWriter
            => scheduler.queue = <<>> \/ Occupied(scheduler) = SlotIndices(scheduler))
    /\ [][/\ spc = "close" /\ spc' # spc
             => /\ spc' = "closed"
                /\ \E d \in DispatchResults(scheduler) : scheduler' = d.scheduler
          /\ spc' = "opening" => spc \in {"closed", "opening"}
          /\ spc' = "closed" /\ spc # "closed" => spc = "close"]_vars

\* the server sleeps in open() with every slot taken and a task queued
C28_BlockedWithTaskQueued ==
    /\ spc = "opening"
    /\ NoForkFailed
    /\ scheduler.queue # <<>>
    /\ Occupied(scheduler) = SlotIndices(scheduler)

(***************************************************************************)
(* C29: when fork() fails in scheduler_dispatch_possible, exactly the one  *)
(* task that was to be forked is dropped: the slot chosen for it is free   *)
(* afterwards (the slots the call took are those whose child was forked,   *)
(* so that later calls can still fill all N slots), and the other queued   *)
(* tasks stay queued.  Stated for the call the server is about to make     *)
(* after an end of file, for each fork() that may fail.                    *)
(***************************************************************************)
C29_ForkFailureDropsOneTask ==
    spc = "close" /\ faults > 0 =>
        \A d \in DispatchResults(scheduler) :
            d.ret < 0 =>
                /\ SlotsTaken(scheduler, d.scheduler) =
                       {d.forked[i] : i \in 1..Len(d.forked)}
                /\ Len(d.scheduler.queue) = Len(scheduler.queue) - Len(d.forked) - 1
                /\ \A i \in 1..Len(d.scheduler.queue) :
                      TimesQueued(scheduler.queue, d.scheduler.queue[i]) >= 1

(***************************************************************************)
(* The server with TASK_DONE frames that come from no child of a taken     *)
(* slot: a frame written twice, or by a process that is not a child.       *)
(***************************************************************************)
MaxStale == 1  \* TASK_DONE frames of that kind in a run

\* A process opens the FIFO of the server, which holds the read end, writes
\* one protocol_task_done_message_t with a slot of its choice and closes.
StaleTaskDone ==
    /\ call.of = "stale"
    /\ call.written < MaxStale
    /\ ServerHolds
    /\ \E slot \in 0..NTasks, is_status \in {0, 1} :
          LET frame == TaskDone(slot, is_status, 0) IN
          /\ pipe' = Append(pipe, frame)
          /\ call' = [call EXCEPT !.written = @ + 1, !.frame = frame]
    /\ UNCHANGED <<faults, now, spc, inbuf, proc, scheduler, status_scheduler,
                   next_task_id, log, accepted, replies, lost, discarded, unreaped,
                   listener, log_file, task_states, status_procs, sender,
                   runner, client_run>>

InitStale ==
    /\ faults = 0
    /\ \E n \in 1..NTasks : Booted({"fcfs"}, n, {PlainTask})
    /\ listener = NoListener /\ StatusIdle /\ sender = NoSender
    /\ runner = NoRunner /\ client_run = NoClient
    /\ call = [of |-> "stale", written |-> 0, frame |-> NoMsg]

NextStale ==
    \/ \E w \in Clients : WriterOpen(w)
    \/ \E w \in Clients : ClientSend(w)
    \/ \E w \in Runners : RunnerFinish(w)
    \/ \E w \in Runners : RetrySend(w)
    \/ \E w \in Clients \cup Runners : WriterClose(w)
    \/ ServerOpen
    \/ ServerRead
    \/ ServerEOF
    \/ ServerClose
    \/ __server_requests_on_schedule_message
    \/ __server_requests_on_done_message
    \/ StaleTaskDone

SpecStale == InitStale /\ [][NextStale]_vars

\* The scheduler a TASK_DONE frame is for.
TargetScheduler(frame) ==
    IF frame.is_status = 1 THEN status_scheduler ELSE scheduler

\* The slot is out of the range of the scheduler, or free.
NoSuchTakenSlot(sched, slot) ==
    slot >= sched.ntasks \/ sched.slots[slot].available

(***************************************************************************)
(* C30: scheduler_mark_done for a slot >= N or for a free slot fails with  *)
(* the range error and changes nothing in the scheduler; the server that   *)
(* handles a duplicate or stale TASK_DONE frame for such a slot changes    *)
(* neither scheduler, nor the log, nor its children, and sends nothing.    *)
(***************************************************************************)
C30_TaskDoneForFreeSlotIgnored ==
    /\ [](\A sched \in {scheduler, status_scheduler} :
            \A slot \in 0..(sched.ntasks + 1) :
                NoSuchTakenSlot(sched, slot) =>
                    LET done == scheduler_mark_done(sched, slot, now, "none", now)
                    IN  done.null /\ done.errno = "ERANGE" /\ done.scheduler = sched)
    /\ [][/\ Handles("TASK_DONE")
          /\ NoSuchTakenSlot(TargetScheduler(Message), Message.slot)
          => UNCHANGED <<scheduler, status_scheduler, log, next_task_id, proc,
                         replies, accepted, discarded, unreaped>>]_vars

\* a TASK_DONE frame for a slot out of range was written to the FIFO and
\* handled (it is in no buffer any more) while a slot held a task
C30_OutOfRangeHandledWhileTaskHeld ==
    /\ call.of = "stale"
    /\ call.written > 0
    /\ call.frame.is_status = 0
    /\ call.frame.slot >= scheduler.ntasks
    /\ \A i \in 1..Len(pipe \o inbuf \o lost) : (pipe \o inbuf \o lost)[i] # call.frame
    /\ Occupied(scheduler) # {}

\* A task the scheduler may be handed next.
NextTask ==
    tagged_task_set_time(
        tagged_task_new_from_command_line(OneProgram, next_task_id, U32(0, 1)).task,
        TAGGED_TASK_TIME_ARRIVED, now)

\* scheduler_mark_done of a taken slot of the scheduler when waitpid fails:
\* the failure is returned, the slot is free, the queue and the other slots
\* are as before, and a task added next is dispatched.
FailedWaitFreesSlot(sched, slot) ==
    LET done == scheduler_mark_done(sched, slot, now, "fail", now)
        d == scheduler_dispatch_possible(
                 scheduler_add_task(done.scheduler, NextTask), sched.ntasks + 1, now)
    IN  /\ done.null /\ done.errno # "0"
        /\ done.scheduler.slots[slot].available
        /\ done.scheduler.queue = sched.queue
        /\ \A k \in SlotIndices(sched) \ {slot} :
              done.scheduler.slots[k] = sched.slots[k]
        /\ d.ret >= 1
        /\ Len(d.scheduler.queue) = Len(sched.queue) + 1 - d.ret

\* The server handles the TASK_DONE frame of a runner and the waitpid of
\* scheduler_mark_done fails for the zombie.
HandlesDoneWithFailedWait ==
    /\ Handles("TASK_DONE")
    /\ Message.is_status = 0
    /\ ~NoSuchTakenSlot(scheduler, Message.slot)
    /\ unreaped' = unreaped + 1

(***************************************************************************)
(* C31: when waitpid fails in scheduler_mark_done, the slot becomes free,  *)
(* the task is discarded and never written to the log, the failure is      *)
(* returned, and the scheduler keeps accepting and dispatching tasks.      *)
(***************************************************************************)
C31_FailedWaitFreesSlot ==
    /\ [](/\ \A k \in Occupied(scheduler) : FailedWaitFreesSlot(scheduler, k)
          /\ \A k \in Occupied(status_scheduler) :
                FailedWaitFreesSlot(status_scheduler, k))
    /\ [][HandlesDoneWithFailedWait
          => /\ scheduler'.slots[Message.slot].available
             /\ scheduler'.queue = scheduler.queue
             /\ log' = log
             /\ scheduler.slots[Message.slot].task.id \in discarded']_vars
    /\ [][\A i \in 1..Len(log'.records) :
             log'.records[i].id \in discarded' =>
                 i <= Len(log.records) /\ log'.records[i].id \in discarded]_vars

\* waitpid failed for the child of the only slot, and a later task was
\* dispatched to that slot
C31_SlotTakenAgainAfterFailedWait ==
    /\ unreaped > 0
    /\ scheduler.ntasks = 1
    /\ Occupied(scheduler) = {0}
    /\ ~scheduler.slots[0].freed
    /\ discarded # {}
    /\ scheduler.slots[0].task.id \notin discarded

\* The TASK_DONE frame of the status child was written and not yet handled.
StatusDoneInFlight(w) ==
    \E i \in 1..Len(pipe \o inbuf) :
        LET frame == (pipe \o inbuf)[i] IN
        frame.type = "TASK_DONE" /\ frame.is_status = 1 /\ frame.slot = w[2]

(***************************************************************************)
(* C32: the status scheduler never loses capacity for good: each status    *)
(* child that was dispatched makes a TASK_DONE frame with is_status reach  *)
(* the server, also when it cannot open the FIFO of the client.  So a      *)
(* taken status slot whose child has ended is one whose frame is on its    *)
(* way to the server: no other process will ever free that slot.           *)
(***************************************************************************)
C32_StatusChildReportsItsEnd ==
    \A w \in StatusChildren :
        /\ w[2] \in Occupied(status_scheduler)
        /\ ~status_scheduler.slots[w[2]].freed
        /\ proc[w].pc = "zombie"
        => StatusDoneInFlight(w)

\* The TASK_DONE frames of the runner of the slot that were written and not
\* yet handled by the server, lost ones included.
RunnerDoneFrames(w) ==
    {i \in 1..Len(pipe \o inbuf \o lost) :
        LET frame == (pipe \o inbuf \o lost)[i] IN
        frame.type = "TASK_DONE" /\ frame.is_status = 0 /\ frame.slot = w[2]}

(***************************************************************************)
(* C33: the runner sends TASK_DONE for its slot exactly once, and only     *)
(* after every process of the pipeline has terminated; the ENDED time of   *)
(* the frame is read after that point.  In the states of the server: a     *)
(* runner never has two frames written, a runner that has exited while its *)
(* slot is still taken has written its frame, and the time of a frame is   *)
(* not before the dispatch of the task of the slot.                        *)
(***************************************************************************)
C33_RunnerSendsTaskDoneOnce ==
    \A w \in Runners :
        /\ Cardinality(RunnerDoneFrames(w)) <= 1
        /\ /\ proc[w].pc = "zombie"
           /\ w[2] \in Occupied(scheduler)
           /\ ~scheduler.slots[w[2]].freed
           => Cardinality(RunnerDoneFrames(w)) = 1
        /\ \A i \in RunnerDoneFrames(w) :
              /\ proc[w].pc \notin {"run", "none"}
              /\ w[2] \in Occupied(scheduler) =>
                    ~TimeLess((pipe \o inbuf \o lost)[i].time_ended,
                              scheduler.slots[w[2]].task.times[TAGGED_TASK_TIME_DISPATCHED])

(***************************************************************************)
(* The file descriptors of task_runner_main and of the processes it forks  *)
(* in __task_runner_spawn (task_runner.c).  A descriptor table maps a      *)
(* descriptor number to the open file it stands for.                       *)
(***************************************************************************)
MaxStages == 4  \* programs in the pipeline of the task
MaxFd == 8      \* largest descriptor number of a table

STDIN_FILENO == 0
STDOUT_FILENO == 1
STDERR_FILENO == 2

FdClosed == [kind |-> "closed", n |-> 0]

\* The table of the runner when task_runner_main starts: the three standard
\* descriptors it has from the server.
StandardFds ==
    [fd \in 0..MaxFd |-> IF fd <= STDERR_FILENO THEN [kind |-> "standard", n |-> fd]
                         ELSE FdClosed]

\* The descriptors of the table that are open.
OpenFds(table) == {fd \in DOMAIN table : table[fd] # FdClosed}

\* The number open() and pipe() give to a new descriptor: the lowest free.
LowestFreeFd(table) ==
    CHOOSE fd \in DOMAIN table \ OpenFds(table) :
        \A other \in DOMAIN table \ OpenFds(table) : fd <= other

FdOpen(table, file) == [table EXCEPT ![LowestFreeFd(table)] = file]

FdClose(table, fd) == [table EXCEPT ![fd] = FdClosed]

\* dup2(oldfd, newfd); it fails and changes nothing when oldfd is not open.
FdDup2(table, oldfd, newfd) ==
    IF table[oldfd] = FdClosed THEN table ELSE [table EXCEPT ![newfd] = table[oldfd]]

\* "if (fd != std) { dup2(fd, std); close(fd); }"
FdRedirect(table, fd, std) ==
    IF fd # std THEN FdClose(FdDup2(table, fd, std), fd) ELSE table

\* The table of the process __task_runner_spawn forks, when it calls
\* execvp: the table of the runner, with stdin closed and in, out and err
\* put in the place of the standard descriptors.
__task_runner_spawn(table, in, out, err) ==
    FdRedirect(
        FdRedirect(
            FdRedirect(FdClose(table, STDIN_FILENO), in, STDIN_FILENO),
            out, STDOUT_FILENO),
        err, STDERR_FILENO)

\* What the steps of the runner leave alone.
FdsResting ==
    UNCHANGED <<faults, now, spc, pipe, inbuf, proc, scheduler, status_scheduler,
                next_task_id, log, accepted, replies, lost, discarded, unreaped,
                listener, log_file, task_states, status_procs, sender,
                runner, client_run>>

\* open() of the file of the standard output of the task; stdout on failure
FdsOpenOut ==
    /\ call.of = "descriptors" /\ call.pc = "open_out"
    /\ \E ok \in BOOLEAN :
          call' = IF ok
                  THEN [call EXCEPT !.pc = "open_err",
                                    !.out = LowestFreeFd(call.fds),
                                    !.fds = FdOpen(call.fds, [kind |-> "file", n |-> 1])]
                  ELSE [call EXCEPT !.pc = "open_err", !.out = STDOUT_FILENO]
    /\ FdsResting

\* open() of the file of the standard error of the task; stderr on failure
FdsOpenErr ==
    /\ call.of = "descriptors" /\ call.pc = "open_err"
    /\ \E ok \in BOOLEAN :
          call' = IF ok
                  THEN [call EXCEPT !.pc = "loop",
                                    !.err = LowestFreeFd(call.fds),
                                    !.fds = FdOpen(call.fds, [kind |-> "file", n |-> 2])]
                  ELSE [call EXCEPT !.pc = "loop", !.err = STDERR_FILENO]
    /\ FdsResting

\* pipe(fds) of a turn of the loop; on failure the runner warns the server
\* and exits.
FdsPipe ==
    /\ call.of = "descriptors" /\ call.pc = "loop"
    /\ call.i < call.nprograms - 1
    /\ \E ok \in BOOLEAN :
          call' =
              IF ok
              THEN LET read_end == LowestFreeFd(call.fds)
                       with_read == FdOpen(call.fds, [kind |-> "pipe_read", n |-> call.i])
                   IN  [call EXCEPT
                           !.pc = "spawn",
                           !.pipe_fds = <<read_end, LowestFreeFd(with_read)>>,
                           !.fds = FdOpen(with_read,
                                          [kind |-> "pipe_write", n |-> call.i])]
              ELSE [call EXCEPT !.pc = "exited"]
    /\ FdsResting

\* __task_runner_spawn(programs[i], in, fds[STDOUT_FILENO], err), then the
\* close() calls of the runner; when fork() fails the runner warns the
\* server and exits.
FdsSpawnPiped ==
    /\ call.of = "descriptors" /\ call.pc = "spawn"
    /\ \E forked \in BOOLEAN :
          call' =
              IF forked
              THEN [call EXCEPT
                       !.pc = "loop",
                       !.execs = Append(@, __task_runner_spawn(
                                               call.fds, call.in,
                                               call.pipe_fds[STDOUT_FILENO + 1],
                                               call.err)),
                       !.fds = FdClose(IF call.i # 0 THEN FdClose(call.fds, call.in)
                                       ELSE call.fds,
                                       call.pipe_fds[STDOUT_FILENO + 1]),
                       !.in = call.pipe_fds[STDIN_FILENO + 1],
                       !.i = @ + 1]
              ELSE [call EXCEPT !.pc = "exited"]
    /\ FdsResting

\* __task_runner_spawn(programs[nprograms - 1], in, out, err)
FdsSpawnLast ==
    /\ call.of = "descriptors" /\ call.pc = "loop"
    /\ call.i = call.nprograms - 1
    /\ \E forked \in BOOLEAN :
          call' = [call EXCEPT
                      !.pc = "wait",
                      !.execs = IF forked
                                THEN Append(@, __task_runner_spawn(
                                                   call.fds, call.in, call.out,
                                                   call.err))
                                ELSE @]
    /\ FdsResting

\* After __task_runner_wait_all_children: close(err), close(out)
FdsCloseFiles ==
    /\ call.of = "descriptors" /\ call.pc = "wait"
    /\ call' = [call EXCEPT !.pc = "exited",
                            !.fds = FdClose(FdClose(call.fds, call.err), call.out)]
    /\ FdsResting

InitFds ==
    /\ ServerResting
    /\ listener = NoListener /\ StatusIdle /\ sender = NoSender
    /\ runner = NoRunner /\ client_run = NoClient
    /\ \E nprograms \in 1..MaxStages :
          call = [of |-> "descriptors", pc |-> "open_out", nprograms |-> nprograms,
                  i |-> 0, fds |-> StandardFds, in |-> 0, out |-> 0, err |-> 0,
                  pipe_fds |-> <<0, 0>>, execs |-> <<>>]

NextFds ==
    \/ FdsOpenOut
    \/ FdsOpenErr
    \/ FdsPipe
    \/ FdsSpawnPiped
    \/ FdsSpawnLast
    \/ FdsCloseFiles

SpecFds == InitFds /\ [][NextFds]_vars

(***************************************************************************)
(* C34: at execvp every stage of a pipeline of k >= 1 programs holds only  *)
(* the descriptors it uses, 0, 1 and 2: every end of a pipe and every      *)
(* descriptor of an output file that it does not use was closed in the     *)
(* forked process.                                                         *)
(***************************************************************************)
C34_StagesHoldOnlyStandardFds ==
    call.of = "descriptors" =>
        \A stage \in 1..Len(call.execs) :
            OpenFds(call.execs[stage]) \subseteq
                {STDIN_FILENO, STDOUT_FILENO, STDERR_FILENO}


\* ---------------------------------------------------------------------------
\* Frames on_message has no use for: a type byte outside the enumeration, or
\* a length the handler of the type turns down.
\* ---------------------------------------------------------------------------

MaxForged == 1

\* What a process that knows the FIFO can write besides the frames of the
\* protocol: any type byte with any length.
ForgedFrames ==
    LET w == CHOOSE c \in Clients : TRUE IN
    {[type |-> "UNKNOWN", length |-> n] : n \in {1, TASK_DONE_MESSAGE_SIZE}}
    \cup {[type |-> type, client_pid |-> w, time_sent |-> now,
           expected_time |-> PlainTask.expected_time,
           command_line |-> PlainTask.command_line, length |-> n] :
             type \in {"SEND_PROGRAM", "SEND_TASK"},
             n \in {1, SEND_PROGRAM_TASK_HEADER_SIZE, IPC_MAXIMUM_MESSAGE_LENGTH + 1}}
    \cup {[TaskDone(slot, 0, 0) EXCEPT !.length = n] :
             slot \in 0..(NTasks - 1),
             n \in {TASK_DONE_MESSAGE_SIZE - 1, TASK_DONE_MESSAGE_SIZE + 1}}
    \cup {[type |-> "STATUS", client_pid |-> w, length |-> n] :
             n \in {STATUS_REQUEST_MESSAGE_SIZE - 1, STATUS_REQUEST_MESSAGE_SIZE + 1}}

ForgedFrame ==
    /\ call.of = "forged"
    /\ call.written < MaxForged
    /\ ServerHolds
    /\ \E frame \in ForgedFrames :
          /\ pipe' = Append(pipe, frame)
          /\ call' = [call EXCEPT !.written = @ + 1, !.frame = frame]
    /\ UNCHANGED <<faults, now, spc, inbuf, proc, scheduler, status_scheduler,
                   next_task_id, log, accepted, replies, lost, discarded, unreaped,
                   listener, log_file, task_states, status_procs, sender,
                   runner, client_run>>

\* __server_requests_on_message on a frame of the default branch of the
\* switch, or on one whose handler returns at its test of the length:
\* a line on stderr at most, and return 0.
__server_requests_on_message_invalid ==
    /\ spc = "handle"
    /\ ~LengthFits(Message)
    /\ Dispatched
    /\ UNCHANGED <<components, faults, now, pipe, proc, scheduler, status_scheduler,
                   next_task_id, log, accepted, replies, lost, discarded, unreaped>>

InitForged ==
    /\ faults = 0
    /\ \E n \in 1..NTasks : Booted({"fcfs"}, n, {PlainTask})
    /\ listener = NoListener /\ StatusIdle /\ sender = NoSender
    /\ runner = NoRunner /\ client_run = NoClient
    /\ call = [of |-> "forged", written |-> 0, frame |-> NoMsg]

NextForged ==
    \/ \E w \in Clients : WriterOpen(w)
    \/ \E w \in Clients : ClientSend(w)
    \/ \E w \in Runners : RunnerFinish(w)
    \/ \E w \in Runners : RetrySend(w)
    \/ \E w \in Clients \cup Runners : WriterClose(w)
    \/ ServerOpen
    \/ ServerRead
    \/ ServerEOF
    \/ ServerClose
    \/ __server_requests_on_schedule_message
    \/ __server_requests_on_done_message
    \/ ForgedFrame
    \/ __server_requests_on_message_invalid

SpecForged == InitForged /\ [][NextForged]_vars

\* The server is about to call on_message with a frame of unknown type or of
\* a length that does not fit its type.
HandlesInvalidFrame ==
    /\ spc = "handle"
    /\ inbuf # <<>>
    /\ "length" \in DOMAIN Message
    /\ Message \in ForgedFrames

\* C35: a frame with an unknown type byte, or with a length that does not fit
\* its type, leaves both schedulers, the id counter and the log as they were,
\* and on_message returns 0: the server goes on with the next frame of the
\* buffer or with the next read().
C35_InvalidFrameChangesNothing ==
    [][HandlesInvalidFrame =>
          /\ scheduler' = scheduler
          /\ status_scheduler' = status_scheduler
          /\ next_task_id' = next_task_id
          /\ log' = log
          /\ accepted' = accepted
          /\ spc' \in {"handle", "read"}]_vars

\* A submission frame of the length of its header alone was handled while a
\* task was running, and the server listens on.
C35_ShortSubmissionHandledWhileTaskRuns ==
    /\ call.of = "forged"
    /\ call.written > 0
    /\ call.frame.type \in {"SEND_PROGRAM", "SEND_TASK"}
    /\ call.frame.length = SEND_PROGRAM_TASK_HEADER_SIZE
    /\ \A i \in 1..Len(pipe \o inbuf \o lost) : (pipe \o inbuf \o lost)[i] # call.frame
    /\ Occupied(scheduler) # {}
    /\ spc \in {"handle", "read"}


(***************************************************************************)
(* C36: whenever a handler of the server has returned, the queue of the    *)
(* status scheduler is empty. The state of a status procedure is a local   *)
(* variable of the handler of the STATUS request, so its task is either    *)
(* given a slot inside that handler or never enters the queue.             *)
(***************************************************************************)
C36_StatusQueueEmptyBetweenHandlers ==
    status_scheduler.queue = <<>>

\* The handler of a request that came when a slot had just been freed gave
\* the task of the request that slot, and its child runs.
C36_RequestStartedInFreedSlot ==
    /\ \E slot \in Occupied(status_scheduler) :
          /\ ~status_scheduler.slots[slot].freed
          /\ status_scheduler.slots[slot].task.task.state \in StatusClients
          /\ proc[<<"schild", slot>>].pc = "run"
    /\ \A i \in 1..Len(replies) : replies[i].frame.type # "ERROR"


\* ---------------------------------------------------------------------------
\* __scheduler_compare_sjf on its own, over expected times from both halves
\* of the range of uint32_t.
\* ---------------------------------------------------------------------------

\* The halves the compared values are made of: 0, 1, 2^15 - 1, 2^15, 2^16 - 1.
ComparedHalves == {0, 1, HALF_SIGN - 1, HALF_SIGN, HALF_MOD - 1}

ComparedTimes == {U32(hi, lo) : hi \in ComparedHalves \ {1}, lo \in ComparedHalves}

CallCompare ==
    /\ call.of = "compare"
    /\ call.pc = "tasks"
    /\ call' = [call EXCEPT !.pc = "compared",
                            !.ret = __scheduler_compare_sjf(call.a, call.b)]
    /\ CallResting

InitCompare ==
    /\ ServerResting
    /\ listener = NoListener /\ StatusIdle /\ sender = NoSender
    /\ runner = NoRunner /\ client_run = NoClient
    /\ \E a \in ComparedTimes, b \in ComparedTimes :
          call = [of |-> "compare", pc |-> "tasks",
                  a |-> tagged_task_new_from_procedure(EarlierClient, 0, a),
                  b |-> tagged_task_new_from_procedure(EarlierClient, 0, b),
                  ret |-> 0]

NextCompare ==
    \/ CallCompare

SpecCompare == InitCompare /\ [][NextCompare]_vars

\* C37: for every pair of expected times a and b, the int the comparator of
\* the SJF policy returns is negative exactly when a < b, zero exactly when
\* a = b, and positive exactly when a > b.
C37_SjfComparatorSignIsOrder ==
    (call.of = "compare" /\ call.pc = "compared") =>
        /\ (call.ret < 0) <=> U32Less(call.a.expected_time, call.b.expected_time)
        /\ (call.ret = 0) <=> (call.a.expected_time = call.b.expected_time)
        /\ (call.ret > 0) <=> U32Less(call.b.expected_time, call.a.expected_time)


\* ---------------------------------------------------------------------------
\* The priority queue on its own: any sequence of priority_queue_insert and
\* priority_queue_remove_top, under the comparator of either policy.
\* ---------------------------------------------------------------------------

MaxInserts == 4  \* calls of priority_queue_insert in a run

\* The tasks a queue of the policy is given: arrival times of any order for
\* fcfs (the clock never reads zero), expected times of the whole range of
\* uint32_t for sjf.
HeapTasks(policy, id) ==
    {tagged_task_set_time(
         tagged_task_new_from_procedure(EarlierClient, id, expected_time),
         TAGGED_TASK_TIME_ARRIVED, arrived) :
       expected_time \in IF policy = "sjf" THEN ExpectedTimes ELSE {U32(0, 1)},
       arrived \in IF policy = "fcfs" THEN Timespecs \ {ZeroTime}
                  ELSE {[tv_sec |-> 0, tv_nsec |-> 1]}}

HeapInsert ==
    /\ call.of = "heap"
    /\ call.inserted < MaxInserts
    /\ \E element \in HeapTasks(call.policy, call.inserted + 1) :
          call' = [call EXCEPT
                     !.pc = "inserted",
                     !.values = priority_queue_insert(call.policy, @, element),
                     !.inserted = @ + 1,
                     !.stored = @ \cup {element}]
    /\ CallResting

HeapRemoveTop ==
    /\ call.of = "heap"
    /\ call.values # <<>>
    /\ LET top == priority_queue_remove_top(call.policy, call.values) IN
       call' = [call EXCEPT !.pc = "removed",
                            !.values = top.values,
                            !.ret = top.ret,
                            !.stored = @ \ {top.ret},
                            !.before = call.stored]
    /\ CallResting

InitHeap ==
    /\ ServerResting
    /\ listener = NoListener /\ StatusIdle /\ sender = NoSender
    /\ runner = NoRunner /\ client_run = NoClient
    /\ \E policy \in {"fcfs", "sjf"} :
          call = [of |-> "heap", pc |-> "new", policy |-> policy, values |-> <<>>,
                  inserted |-> 0, stored |-> {}, ret |-> NoTask, before |-> {}]

NextHeap ==
    \/ HeapInsert
    \/ HeapRemoveTop

SpecHeap == InitHeap /\ [][NextHeap]_vars

\* Index i of the heap array, i > 0, holds an element that compares lower
\* than the one at its parent (i - 1) / 2.
LowerThanParent(policy, values, i) ==
    cmp_func(policy, values[i + 1], values[((i - 1) \div 2) + 1]) < 0

\* C38: after any sequence of priority_queue_insert and
\* priority_queue_remove_top no stored element compares lower than its heap
\* parent, the element remove_top returned is one no element stored at that
\* time compares lower than, and the stored tasks are exactly the ones that
\* were inserted and not removed since.
C38_HeapOrderedAndComplete ==
    call.of = "heap" =>
        /\ \A i \in 1..(Len(call.values) - 1) :
              ~LowerThanParent(call.policy, call.values, i)
        /\ call.pc = "removed" =>
              /\ call.ret \in call.before
              /\ \A element \in call.before :
                    cmp_func(call.policy, element, call.ret) >= 0
        /\ {call.values[i] : i \in 1..Len(call.values)} = call.stored
        /\ Len(call.values) = Cardinality(call.stored)


\* ---------------------------------------------------------------------------
\* The argv array of a program (server/program.c): its length, its capacity
\* and the index the last NULL terminator was written at.
\* ---------------------------------------------------------------------------

MaxArguments == 17  \* arguments of a program

PROGRAM_INITIAL_CAPACITY == 8

\* "first_power = 1; while (first_power < length) first_power *= 2;"
RECURSIVE FirstPower(_, _)
FirstPower(first_power, length) ==
    IF first_power < length THEN FirstPower(first_power * 2, length)
    ELSE first_power

\* program_new_from_arguments(arguments, length) where every allocation
\* succeeds: null_at is the index of "ret->argv[length] = NULL".
program_new_from_arguments(length) ==
    LET first_power == FirstPower(1, length) IN
    [length |-> length,
     capacity |-> IF first_power < PROGRAM_INITIAL_CAPACITY
                  THEN PROGRAM_INITIAL_CAPACITY ELSE first_power,
     null_at |-> length]

program_clone(program) == program_new_from_arguments(program.length)

\* program_add_argument(program, argument) where every allocation succeeds
program_add_argument(program) ==
    [length |-> program.length + 1,
     capacity |-> IF program.length >= program.capacity - 2
                  THEN program.capacity * 2 ELSE program.capacity,
     null_at |-> program.length + 1]

\* program_new_from_arguments on an array of call.length arguments
ProgramNewFromArguments ==
    /\ call.of = "program"
    /\ call.pc = "arguments"
    /\ call' = [call EXCEPT !.pc = "new",
                            !.program = program_new_from_arguments(call.length)]
    /\ CallResting

ProgramAddArgument ==
    /\ call.of = "program"
    /\ call.pc # "arguments"
    /\ call.program.length < MaxArguments
    /\ call' = [call EXCEPT !.pc = "added",
                            !.program = program_add_argument(call.program)]
    /\ CallResting

ProgramClone ==
    /\ call.of = "program"
    /\ call.pc # "arguments"
    /\ call' = [call EXCEPT !.pc = "cloned",
                            !.program = program_clone(call.program)]
    /\ CallResting

InitProgram ==
    /\ ServerResting
    /\ listener = NoListener /\ StatusIdle /\ sender = NoSender
    /\ runner = NoRunner /\ client_run = NoClient
    /\ \E length \in 0..MaxArguments :
          call = [of |-> "program", pc |-> "arguments", length |-> length,
                  program |-> [length |-> 0, capacity |-> 0, null_at |-> 0]]

NextProgram ==
    \/ ProgramNewFromArguments
    \/ ProgramAddArgument
    \/ ProgramClone

SpecProgram == InitProgram /\ [][NextProgram]_vars

\* C39: for every number n of arguments, the argv of a program made by
\* program_new_from_arguments, and so by program_clone, has a capacity
\* greater than n: the NULL terminator at index n is inside the allocation.
C39_TerminatorInsideArgv ==
    (call.of = "program" /\ call.pc \in {"new", "cloned"}) =>
        /\ call.program.capacity > call.program.length
        /\ call.program.null_at < call.program.capacity

=============================================================================
